---- MODULE Spec2Model ----
(***************************************************************************)
(* A model of the vox compiler (eng-c/vox): the semantic analyzer's scope  *)
(* model and diagnostics (src/src/analyzer/mod.rs, src/src/errors.rs) and  *)
(* the code generator's call sequences and bounds-checked list accesses    *)
(* (src/src/codegen/mod.rs), the latter run on a small x86_64 machine.     *)
(*                                                                         *)
(* Text (names, guard keys, error messages) is a sequence of one-character *)
(* strings, so that edit distance, substring search and key formatting are *)
(* computed as the code computes them.                                     *)
(***************************************************************************)
EXTENDS Integers, Sequences, FiniteSets, TLC

\* ------------------------------------------------------------------ text

Min2(a, b) == IF a <= b THEN a ELSE b

Abs(n) == IF n < 0 THEN -n ELSE n

Range(s) == {s[i] : i \in DOMAIN s}

\* The element of a one-element set.  Where a loop or a sequence of steps hands
\* a state from one step to the next, the state is bound as the element of a
\* one-element set, {F(x) : x \in {e}}: e is worked out once, then F on its value.
Only(S) == CHOOSE x \in S : TRUE

\* str::to_lowercase on the letters that occur in the model's names
UpperToLower ==
    [A |-> "a", B |-> "b", C |-> "c", D |-> "d", E |-> "e", F |-> "f", G |-> "g",
     H |-> "h", I |-> "i", J |-> "j", K |-> "k", L |-> "l", M |-> "m", N |-> "n",
     O |-> "o", P |-> "p", Q |-> "q", R |-> "r", S |-> "s", T |-> "t", U |-> "u",
     V |-> "v", W |-> "w", X |-> "x", Y |-> "y", Z |-> "z"]

to_lowercase(w) ==
    [i \in DOMAIN w |-> IF w[i] \in DOMAIN UpperToLower THEN UpperToLower[w[i]] ELSE w[i]]

\* A character outside ASCII: U+00E9, a lowercase letter of two bytes in UTF-8
e_acute == "U+00E9"

\* char::len_utf8 on the characters of the model
len_utf8(c) == IF c = e_acute THEN 2 ELSE 1

\* str::len: the length of the text in bytes
len(s) == Len(s) + Cardinality({i \in DOMAIN s : len_utf8(s[i]) = 2})

\* str::starts_with
starts_with(s, p) == Len(p) <= Len(s) /\ SubSeq(s, 1, Len(p)) = p

\* str::contains: p occurs in s as a contiguous substring
contains(s, p) ==
    \E i \in 0..(Len(s) - Len(p)) : SubSeq(s, i + 1, i + Len(p)) = p

\* ------------------------------------------------------- edit distance

\* dp[i][j] of levenshtein_distance for j = Len(acc), from row i-1 (prev) and
\* the entries of row i to its left (acc); rows are sequences indexed 1..n+1
\* for the columns 0..n.
LevCell(prev, ai, b, i, acc, j) ==
    IF j = 0 THEN i
    ELSE Min2(Min2(prev[j + 1] + 1, acc[j] + 1), prev[j] + (IF ai = b[j] THEN 0 ELSE 1))

\* Row i of the table (for a[i]), filled from the left
RECURSIVE LevRow(_, _, _, _, _)
LevRow(prev, ai, b, i, acc) ==
    IF Len(acc) = Len(prev) THEN acc
    ELSE LevRow(prev, ai, b, i, Append(acc, LevCell(prev, ai, b, i, acc, Len(acc))))

RECURSIVE LevRows(_, _, _, _)
LevRows(a, b, i, prev) ==
    IF i > Len(a) THEN prev
    ELSE LevRows(a, b, i + 1, LevRow(prev, a[i], b, i, <<>>))

\* The table's last entry dp[m][n], for the lowercased words
LevTable(al, bl) ==
    IF Len(al) = 0 THEN Len(bl)
    ELSE IF Len(bl) = 0 THEN Len(al)
    ELSE LevRows(al, bl, 1, [j \in 1..(Len(bl) + 1) |-> j - 1])[Len(bl) + 1]

levenshtein_distance(a, b) == LevTable(to_lowercase(a), to_lowercase(b))

ENGLISH_KEYWORDS ==
    <<
       <<"p","r","i","n","t">>, <<"s","e","t">>, <<"c","r","e","a","t","e">>,
       <<"a","d","d">>, <<"s","u","b","t","r","a","c","t">>, <<"m","u","l","t","i","p","l","y">>,
       <<"d","i","v","i","d","e">>, <<"i","n","c","r","e","m","e","n","t">>, <<"d","e","c","r","e","m","e","n","t">>,
       <<"c","a","l","l">>, <<"a","l","l","o","c","a","t","e">>, <<"f","r","e","e">>,
       <<"o","p","e","n">>, <<"r","e","a","d">>, <<"w","r","i","t","e">>,
       <<"c","l","o","s","e">>, <<"d","e","l","e","t","e">>, <<"e","x","i","s","t","s">>,
       <<"r","e","s","i","z","e">>, <<"s","e","e","k">>, <<"i","f">>,
       <<"w","h","e","n">>, <<"t","h","e","n">>, <<"e","l","s","e">>,
       <<"b","u","t">>, <<"o","t","h","e","r","w","i","s","e">>, <<"w","h","i","l","e">>,
       <<"u","n","t","i","l">>, <<"f","o","r">>, <<"e","a","c","h">>,
       <<"e","v","e","r","y">>, <<"l","o","o","p">>, <<"r","e","p","e","a","t">>,
       <<"t","i","m","e","s">>, <<"b","r","e","a","k">>, <<"c","o","n","t","i","n","u","e">>,
       <<"r","e","t","u","r","n">>, <<"e","x","i","t">>, <<"w","i","t","h">>,
       <<"c","a","l","l","e","d">>, <<"m","o","d","u","l","o">>, <<"i","s">>,
       <<"a","r","e">>, <<"e","q","u","a","l","s">>, <<"e","q","u","a","l">>,
       <<"g","r","e","a","t","e","r">>, <<"l","e","s","s">>, <<"t","h","a","n">>,
       <<"n","o","t">>, <<"a","n","d">>, <<"o","r">>,
       <<"f","r","o","m">>, <<"t","o">>, <<"b","e","t","w","e","e","n">>,
       <<"t","h","r","o","u","g","h">>, <<"i","n">>, <<"o","f">>,
       <<"o","n">>, <<"t","h","e">>, <<"a">>,
       <<"a","n">>, <<"a","l","l">>, <<"b","y">>,
       <<"t","r","e","a","t","i","n","g">>, <<"a","s">>, <<"n","u","m","b","e","r">>,
       <<"t","e","x","t">>, <<"b","o","o","l","e","a","n">>, <<"l","i","s","t">>,
       <<"t","r","u","e">>, <<"f","a","l","s","e">>, <<"b","u","f","f","e","r">>,
       <<"f","i","l","e">>, <<"b","y","t","e","s">>, <<"s","i","z","e">>,
       <<"i","n","t","o">>, <<"r","e","a","d","i","n","g">>, <<"w","r","i","t","i","n","g">>,
       <<"a","p","p","e","n","d","i","n","g">>, <<"s","t","a","n","d","a","r","d">>, <<"i","n","p","u","t">>,
       <<"o","u","t","p","u","t">>, <<"e","v","e","n">>, <<"o","d","d">>,
       <<"p","o","s","i","t","i","v","e">>, <<"n","e","g","a","t","i","v","e">>, <<"z","e","r","o">>,
       <<"e","m","p","t","y">>, <<"c","a","p","a","c","i","t","y">>, <<"l","e","n","g","t","h">>,
       <<"f","i","r","s","t">>, <<"l","a","s","t">>, <<"c","o","u","n","t">>,
       <<"e","r","r","o","r">>, <<"s","t","d","e","r","r">>, <<"a","u","t","o">>,
       <<"c","a","t","c","h","i","n","g">>, <<"e","n","a","b","l","e">>, <<"d","i","s","a","b","l","e">>,
       <<"s","e","e">>, <<"l","i","b","r","a","r","y">>, <<"v","e","r","s","i","o","n">>,
       <<"a","r","g","u","m","e","n","t">>, <<"a","r","g","u","m","e","n","t","s">>, <<"e","n","v","i","r","o","n","m","e","n","t">>,
       <<"v","a","r","i","a","b","l","e">>, <<"d","e","f","i","n","e">>, <<"f","u","n","c","t","i","o","n">>,
       <<"e","n","d">>, <<"r","e","t","u","r","n","i","n","g">>, <<"t","a","k","i","n","g">>
    >>

\* A matcher that never finds a keyword near the word
find_no_keyword(word, keywords) == <<>>

\* The distance of the word to each keyword the loop does not skip for its length
KeywordDistances(word, keywords) ==
    [k \in {i \in DOMAIN keywords : Abs(len(word) - len(keywords[i])) <= 2} |->
        levenshtein_distance(to_lowercase(word), keywords[k])]

\* best_match of the loop: the first keyword of the least distance within
\* max_distance (a later one replaces the best only when strictly closer)
BestMatch(keywords, distance, close) ==
    IF close = {} THEN <<>>
    ELSE <<keywords[CHOOSE k \in close :
                        \A j \in close : \/ distance[k] < distance[j]
                                         \/ (distance[k] = distance[j] /\ k <= j)]>>

\* The loop over the keywords: None at an exact match, else the best match
ClosestKeyword(keywords, distance, max_distance) ==
    IF \E k \in DOMAIN distance : distance[k] = 0 THEN <<>>
    ELSE BestMatch(keywords, distance,
                   {k \in DOMAIN distance : distance[k] <= max_distance})

\* find_similar_keyword: <<>> for None, <<keyword>> for Some(keyword).
find_similar_keyword(word, keywords) ==
    IF len(word) <= 2 THEN <<>>
    ELSE ClosestKeyword(keywords, KeywordDistances(word, keywords),
                        IF len(word) >= 4 THEN 2 ELSE 1)

\* ------------------------------------------------------------ misspellings

\* The words one edit away from a word, the characters put in being of cs
Deletions(w) == {SubSeq(w, 1, i - 1) \o SubSeq(w, i + 1, Len(w)) : i \in DOMAIN w}

Substitutions(w, cs) == {[w EXCEPT ![i] = c] : i \in DOMAIN w, c \in cs}

Insertions(w, cs) ==
    {SubSeq(w, 1, i) \o <<c>> \o SubSeq(w, i + 1, Len(w)) : i \in 0..Len(w), c \in cs}

Edits(w, cs) == Deletions(w) \cup Substitutions(w, cs) \cup Insertions(w, cs)

\* The words at most n edits away from the words of a set
RECURSIVE Misspelled(_, _, _)
Misspelled(words, cs, n) ==
    IF n = 0 THEN words
    ELSE Misspelled(words \cup UNION {Edits(w, cs) : w \in words}, cs, n - 1)

\* The words find_similar_keyword is called on: the keywords, and the words up
\* to MaxEdits edits away from some short ones, the characters put in being a
\* letter that is in no keyword near them, a capital, and a letter outside ASCII
MaxEdits == 2

EditChars == {"x", "E", e_acute}

SuggestWords ==
    Range(ENGLISH_KEYWORDS)
    \cup Misspelled({<<"a">>, <<"i","f">>, <<"s","e","t">>}, EditChars, MaxEdits)

\* ------------------------------------------------- AST (parser/ast.rs)
\* Option<T>: None is <<>>, Some(v) is <<v>>.  Nodes are records tagged by k.

None == <<>>

Some(v) == <<v>>

IntegerLit(v) == [k |-> "IntegerLit", v |-> v]

BoolLit(b) == [k |-> "BoolLit", b |-> b]

StringLit(s) == [k |-> "StringLit", s |-> s]

Identifier(name) == [k |-> "Identifier", name |-> name]

BinaryOp(left, op, right) == [k |-> "BinaryOp", left |-> left, op |-> op, right |-> right]

UnaryOp(op, operand) == [k |-> "UnaryOp", op |-> op, operand |-> operand]

ExprFunctionCall(name, args) == [k |-> "FunctionCall", name |-> name, args |-> args]

ListAccess(list, index) == [k |-> "ListAccess", list |-> list, index |-> index]

ElementAccess(list, index) == [k |-> "ElementAccess", list |-> list, index |-> index]

FormatString(parts) == [k |-> "FormatString", parts |-> parts]

FormatVariable(name) == [k |-> "Variable", name |-> name]

PrintStmt(value) == [k |-> "Print", value |-> value]

VarDecl(name, var_type, value) ==
    [k |-> "VarDecl", name |-> name, var_type |-> var_type, value |-> value]

If(condition, then_block, else_if_blocks, else_block) ==
    [k |-> "If", condition |-> condition, then_block |-> then_block,
     else_if_blocks |-> else_if_blocks, else_block |-> else_block]

Exit(code) == [k |-> "Exit", code |-> code]

Allocate(name, size) == [k |-> "Allocate", name |-> name, size |-> size]

FunctionCall(name, args) == [k |-> "FunctionCall", name |-> name, args |-> args]

FunctionDef(name, params, body) ==
    [k |-> "FunctionDef", name |-> name, params |-> params, body |-> body]

BufferDecl(name, size) == [k |-> "BufferDecl", name |-> name, size |-> size]

FileOpen(name, path, mode) ==
    [k |-> "FileOpen", name |-> name, path |-> path, mode |-> mode]

TimerDecl(name) == [k |-> "TimerDecl", name |-> name]

GetTime(into) == [k |-> "GetTime", into |-> into]

\* ------------------------------------------ error messages (analyzer)

MsgUnknownVariable == <<"U","n","k","n","o","w","n"," ","v","a","r","i","a","b","l","e",":"," ">>

MsgFreeingUnknown ==
    <<"F", "r", "e", "e", "i", "n", "g", " ", "u", "n", "k", "n", "o", "w", "n", " ",
      "v", "a", "r", "i", "a", "b", "l", "e", ":", " ">>

MsgUnknownFunction == <<"U","n","k","n","o","w","n"," ","f","u","n","c","t","i","o","n",":"," ">>

MsgDidYouMeanOpen == <<" ","(","d","i","d"," ","y","o","u"," ","m","e","a","n"," ","'">>

MsgDidYouMeanClose == <<"'","?",")">>

MsgUnknownBuffer == <<"U","n","k","n","o","w","n"," ","b","u","f","f","e","r",":"," ">>

MsgUnknownFile == <<"U","n","k","n","o","w","n"," ","f","i","l","e",":"," ">>

MsgUnknownTimer == <<"U","n","k","n","o","w","n"," ","t","i","m","e","r",":"," ">>

MsgUnknownIdentifierOpen ==
    <<"U", "n", "k", "n", "o", "w", "n", " ", "i", "d", "e", "n", "t", "i", "f", "i",
      "e", "r", " ", "'">>

MsgQuote == <<"'">>

MsgFlagVariableOpen == <<"F","l","a","g"," ","v","a","r","i","a","b","l","e"," ","'">>

MsgUsedBeforeParsed ==
    <<"'", " ", "i", "s", " ", "u", "s", "e", "d", " ", "b", "e", "f", "o", "r", "e",
      " ", "f", "l", "a", "g", "s", " ", "a", "r", "e", " ", "p", "a", "r", "s", "e",
      "d">>

MsgFlagsAfterParse ==
    <<"C", "a", "n", "n", "o", "t", " ", "d", "e", "c", "l", "a", "r", "e", " ", "n",
      "e", "w", " ", "f", "l", "a", "g", "s", " ", "a", "f", "t", "e", "r", " ", "'",
      "p", "a", "r", "s", "e", " ", "f", "l", "a", "g", "s", ".", "'">>

MsgDuplicateParse ==
    <<"D", "u", "p", "l", "i", "c", "a", "t", "e", " ", "'", "p", "a", "r", "s", "e",
      " ", "f", "l", "a", "g", "s", ".", "'", " ", "s", "t", "a", "t", "e", "m", "e",
      "n", "t">>

KeyNotOpen == <<"n","o","t"," ","(">>

KeyOpen == <<"(">>

KeyClose == <<")">>

KeyAnd == <<")"," ","a","n","d"," ","(">>

KeyOr == <<")"," ","o","r"," ","(">>

IterName == <<"_","i","t","e","r">>

StdinName == <<"s","t","d","i","n">>

StdoutName == <<"s","t","d","o","u","t">>

StderrName == <<"s","t","d","e","r","r">>

Underscore == <<"_">>

\* ------------------------------------------------------------------- names
\* The identifiers and flag names of the programs analysed below

s_total == <<"t","o","t","a","l">>

s_level == <<"l","e","v","e","l">>

s_now == <<"n","o","w">>

s_end == <<"_","e","n","d">>

s_temp == <<"t","e","m","p">>

s_debug == <<"d","e","b","u","g">>

s_verbose == <<"v","e","r","b","o","s","e">>

s_quiet == <<"q","u","i","e","t">>

s_make == <<"m","a","k","e">>

s_path == <<"o","u","t",".","t","x","t">>

s_pick == <<"p","i","c","k">>

s_items == <<"i","t","e","m","s">>

s_index == <<"i","n","d","e","x">>

\* The name of the i-th parameter of a generated function
ParamName(i) == <<"p", <<"a", "b", "c", "d", "e", "f", "g", "h", "i", "j">>[i]>>

s_prnt == <<"p","r","n","t">>

s_whle == <<"w","h","l","e">>

ProgramNames ==
    Range(<<s_total, s_level, s_now, s_end, s_temp, s_debug, s_verbose, s_quiet, s_make,
            s_pick, s_items, s_index, s_prnt, s_whle>> \o [i \in 1..10 |-> ParamName(i)])

\* find_similar_keyword(word, ENGLISH_KEYWORDS), worked out once for each of
\* the programs' names
SimilarKeyword ==
    [word \in ProgramNames |-> find_similar_keyword(word, ENGLISH_KEYWORDS)]

\* find_similar_keyword(word, ENGLISH_KEYWORDS) as the analyzer calls it
KeywordNear(word) ==
    IF word \in ProgramNames THEN SimilarKeyword[word]
    ELSE find_similar_keyword(word, ENGLISH_KEYWORDS)

\* ------------------------------------------------ analyzer (analyzer/mod.rs)
\* The analyzer's state is a record A with the fields of struct Analyzer.  Two
\* history fields record what the walk saw: use_log, one entry per Identifier or
\* FormatString variable visited (its name and whether it was available there),
\* and if_log, one entry per if-statement analysed.

Dependencies ==
    [uses_io |-> FALSE, uses_heap |-> FALSE, uses_strings |-> FALSE,
     uses_args |-> FALSE, uses_funcs |-> FALSE]

\* Analyzer::new
NewAnalyzer ==
    [deps |-> Dependencies,
     variables |-> {},
     functions |-> {},
     typo_candidates |-> {},
     errors |-> <<>>,
     guarded_scopes |-> <<>>,
     active_guards |-> <<>>,
     block_depth |-> 0,
     global_variables |-> {},
     flag_variables |-> {},
     use_log |-> <<>>,
     if_log |-> <<>>]

\* A feature flag that is switched over where the code sets it
FlipDep(A, flag) == [A EXCEPT !.deps[flag] = ~@]

SetDep(A, flag) == [A EXCEPT !.deps[flag] = TRUE]

push_error(A, message) == [A EXCEPT !.errors = Append(@, message)]

push_unknown_variable(A, name) == push_error(A, MsgUnknownVariable \o name)

track_typo_candidate(A, name) == [A EXCEPT !.typo_candidates = @ \cup {name}]

current_env(A) == [always |-> A.variables, guarded |-> A.guarded_scopes]

apply_env(A, env) ==
    [A EXCEPT !.variables = env.always, !.guarded_scopes = env.guarded]

\* HashMap lookup with a default of the empty set
ScopeOf(scopes, guard) == IF guard \in DOMAIN scopes THEN scopes[guard] ELSE {}

is_variable_available(A, name) ==
    \/ name \in A.variables
    \/ \E i \in DOMAIN A.active_guards :
          name \in ScopeOf(A.guarded_scopes, A.active_guards[i])

\* guarded_scopes.entry(guard).or_default().insert(name), for every guard of guards
InsertUnderGuards(scopes, guards, name) ==
    [g \in (DOMAIN scopes) \cup guards |->
        IF g \in guards THEN ScopeOf(scopes, g) \cup {name} ELSE scopes[g]]

declare_variable_in_current_scope(A, name) ==
    IF A.active_guards = <<>>
    THEN [A EXCEPT !.variables = @ \cup {name}]
    ELSE [A EXCEPT !.guarded_scopes = InsertUnderGuards(@, Range(A.active_guards), name)]

\* A merge that keeps what any continuing branch declared
merge_union_envs(envs, fallback) ==
    IF envs = <<>> THEN fallback
    ELSE [always |-> UNION {envs[i].always : i \in DOMAIN envs},
          guarded |-> [g \in UNION {DOMAIN envs[i].guarded : i \in DOMAIN envs} |->
                          UNION {ScopeOf(envs[i].guarded, g) : i \in DOMAIN envs}]]

merge_continuing_envs(envs, fallback) ==
    IF envs = <<>> THEN fallback
    ELSE [always |-> {name \in envs[1].always :
                        \A i \in 2..Len(envs) : name \in envs[i].always},
          guarded |-> [g \in UNION {DOMAIN envs[i].guarded : i \in DOMAIN envs} |->
                          UNION {ScopeOf(envs[i].guarded, g) : i \in DOMAIN envs}]]

RECURSIVE simple_guard_key(_)
simple_guard_key(condition) ==
    CASE condition.k = "Identifier" -> Some(condition.name)
      [] condition.k = "StringLit" -> Some(condition.s)
      [] condition.k = "UnaryOp" /\ condition.op = "Not" ->
            LET key == simple_guard_key(condition.operand)
            IN  IF key = None THEN None ELSE Some(KeyNotOpen \o key[1] \o KeyClose)
      [] condition.k = "BinaryOp" ->
            IF condition.op \notin {"And", "Or"} THEN None
            ELSE LET left_key == simple_guard_key(condition.left)
                     right_key == simple_guard_key(condition.right)
                 IN  IF left_key = None \/ right_key = None THEN None
                     ELSE Some(KeyOpen \o left_key[1]
                               \o (IF condition.op = "And" THEN KeyAnd ELSE KeyOr)
                               \o right_key[1] \o KeyClose)
      [] OTHER -> None

maybe_activate_true_guard(A, name, var_type, value) ==
    IF A.block_depth = 0 THEN A
    ELSE LET is_bool_typed == var_type = None \/ var_type = Some("Boolean")
             is_true == value = Some(BoolLit(TRUE))
         IN  IF is_bool_typed /\ is_true
             THEN [A EXCEPT
                     !.active_guards = IF name \in Range(@) THEN @ ELSE Append(@, name),
                     !.guarded_scopes = InsertUnderGuards(@, {name}, name)]
             ELSE A

RECURSIVE statement_always_terminates(_)
RECURSIVE block_always_terminates(_)
block_always_terminates(block) ==
    \E i \in DOMAIN block : statement_always_terminates(block[i])

statement_always_terminates(stmt) ==
    CASE stmt.k \in {"Return", "Exit"} -> TRUE
      [] stmt.k = "If" ->
            /\ block_always_terminates(stmt.then_block)
            /\ \A i \in DOMAIN stmt.else_if_blocks :
                  block_always_terminates(stmt.else_if_blocks[i][2])
            /\ stmt.else_block # None
            /\ block_always_terminates(stmt.else_block[1])
      [] OTHER -> FALSE

\* The unknown-function message, with the suggestion when there is one
WithSuggestion(message, suggestion) ==
    IF suggestion = None THEN message
    ELSE message \o MsgDidYouMeanOpen \o suggestion[1] \o MsgDidYouMeanClose

\* The unknown-function check of the FunctionCall statement and expression
CheckFunction(A, name) ==
    IF name \notin A.functions
    THEN push_error(A, WithSuggestion(MsgUnknownFunction \o name,
                                      KeywordNear(name)))
    ELSE A

\* An entry of use_log
LogUse(A, name, available) ==
    [A EXCEPT !.use_log = Append(@, [name |-> name, available |-> available])]

\* The Identifier arm of analyze_expr, also taken for a FormatPart::Variable
AnalyzeNameUse(A, name) ==
    IF ~is_variable_available(A, name) /\ name # IterName
    THEN IF KeywordNear(name) = None
         THEN push_unknown_variable(LogUse(A, name, FALSE), name)
         ELSE track_typo_candidate(LogUse(A, name, FALSE), name)
    ELSE LogUse(A, name, is_variable_available(A, name))

RECURSIVE analyze_expr(_, _)
RECURSIVE analyze_exprs(_, _)
RECURSIVE analyze_format_parts(_, _)
RECURSIVE analyze_statement(_, _)
RECURSIVE analyze_statements(_, _)
RECURSIVE AnalyzeBlockStatements(_, _)
RECURSIVE AnalyzeElseIfBlocks(_, _, _, _, _)
RECURSIVE AfterElseIfBlock(_, _, _, _, _)

\* for e in es { self.analyze_expr(e) }
analyze_exprs(A, es) ==
    IF es = <<>> THEN A ELSE analyze_exprs(analyze_expr(A, Head(es)), Tail(es))

analyze_format_parts(A, parts) ==
    IF parts = <<>> THEN A
    ELSE analyze_format_parts(
            CASE Head(parts).k = "Expression" -> analyze_expr(A, Head(parts).expr)
              [] Head(parts).k = "Variable" -> AnalyzeNameUse(A, Head(parts).name)
              [] OTHER -> A,
            Tail(parts))

analyze_expr(A, expr) ==
    CASE expr.k = "BinaryOp" -> analyze_expr(analyze_expr(A, expr.left), expr.right)
      [] expr.k = "UnaryOp" -> analyze_expr(A, expr.operand)
      [] expr.k = "Range" -> analyze_expr(analyze_expr(A, expr.start), expr.end)
      [] expr.k = "PropertyCheck" -> analyze_expr(A, expr.value)
      [] expr.k = "FunctionCall" ->
            analyze_exprs(CheckFunction(SetDep(A, "uses_funcs"), expr.name), expr.args)
      [] expr.k = "ListAccess" -> analyze_expr(analyze_expr(A, expr.list), expr.index)
      [] expr.k = "ListLit" -> analyze_exprs(SetDep(A, "uses_heap"), expr.elements)
      [] expr.k = "StringLit" -> SetDep(A, "uses_strings")
      [] expr.k = "FormatString" ->
            analyze_format_parts(SetDep(A, "uses_strings"), expr.parts)
      [] expr.k = "Identifier" -> AnalyzeNameUse(A, expr.name)
      [] expr.k \in {"ArgumentCount", "ArgumentName", "ArgumentFirst", "ArgumentSecond",
                     "ArgumentLast", "ArgumentEmpty", "ArgumentAll", "ArgumentRaw",
                     "EnvironmentVariableCount", "EnvironmentVariableFirst",
                     "EnvironmentVariableLast", "EnvironmentVariableEmpty"} ->
            SetDep(A, "uses_args")
      [] expr.k = "ArgumentHas" ->
            analyze_expr(SetDep(SetDep(A, "uses_args"), "uses_strings"), expr.value)
      [] expr.k = "TreatingAs" ->
            analyze_expr(analyze_expr(analyze_expr(A, expr.value), expr.match_value),
                         expr.replacement)
      [] expr.k \in {"ArgumentAt", "EnvironmentVariableAt"} ->
            analyze_expr(SetDep(A, "uses_args"), expr.index)
      [] expr.k \in {"EnvironmentVariable", "EnvironmentVariableExists"} ->
            analyze_expr(SetDep(A, "uses_args"), expr.name)
      [] OTHER -> A

\* for s in body { self.analyze_statement(s) }
analyze_statements(A, body) ==
    IF body = <<>> THEN A
    ELSE Only({analyze_statements(after, Tail(body)) :
                  after \in {analyze_statement(A, Head(body))}})

\* The loop of analyze_block_in_scope: it stops after the first statement that
\* always terminates.
AnalyzeBlockStatements(A, block) ==
    IF block = <<>> THEN [A |-> A, terminates |-> FALSE]
    ELSE IF statement_always_terminates(Head(block))
    THEN [A |-> analyze_statement(A, Head(block)), terminates |-> TRUE]
    ELSE Only({AnalyzeBlockStatements(after, Tail(block)) :
                  after \in {analyze_statement(A, Head(block))}})

\* The end of analyze_block_in_scope: the block's resulting environment is
\* read, and depth, guards and environment are restored to the saved ones.
LeaveBlock(A, walked, saved_env) ==
    [A |-> apply_env([walked.A EXCEPT !.block_depth = A.block_depth,
                                      !.active_guards = A.active_guards],
                     saved_env),
     env |-> current_env(walked.A),
     terminates |-> walked.terminates]

\* Returns the analyzer after the block (its scope restored), the block's
\* resulting environment and whether the block always terminates.
analyze_block_in_scope(A, block, input_env, active_guard) ==
    LeaveBlock(A,
               AnalyzeBlockStatements(
                   [apply_env(A, input_env) EXCEPT
                       !.block_depth = @ + 1,
                       !.active_guards = IF active_guard = None THEN @
                                         ELSE Append(@, active_guard[1])],
                   block),
               current_env(A))

\* The else-if loop of the If arm: the analyzer, the continuing environments
\* and the exit of every branch so far
AnalyzeElseIfBlocks(A, else_if_blocks, branch_env, continuing_envs, exits) ==
    IF else_if_blocks = <<>> THEN [A |-> A, envs |-> continuing_envs, exits |-> exits]
    ELSE Only({AfterElseIfBlock(elif, else_if_blocks, branch_env, continuing_envs, exits) :
                  elif \in {analyze_block_in_scope(
                               apply_env(analyze_expr(apply_env(A, branch_env),
                                                      Head(else_if_blocks)[1]),
                                         current_env(A)),
                               Head(else_if_blocks)[2], branch_env, None)}})

AfterElseIfBlock(elif, else_if_blocks, branch_env, continuing_envs, exits) ==
    AnalyzeElseIfBlocks(
        elif.A, Tail(else_if_blocks), branch_env,
        IF elif.terminates THEN continuing_envs ELSE Append(continuing_envs, elif.env),
        Append(exits, [block |-> Head(else_if_blocks)[2], env |-> elif.env]))

\* The name checks that report "Unknown <what>: <name>"
CheckKnown(A, name, message) ==
    IF is_variable_available(A, name) THEN A ELSE push_error(A, message \o name)

\* A FunctionDef arm that analyses the body in the caller's scope and keeps
\* what the body declared
analyze_function_def_unrestored(A, stmt) ==
    analyze_statements([SetDep(A, "uses_funcs") EXCEPT !.functions = @ \cup {stmt.name}],
                       stmt.body)

\* The end of the FunctionDef arm: the caller's scope is restored
LeaveFunction(A, walked, saved_env) ==
    apply_env([walked EXCEPT !.block_depth = A.block_depth,
                             !.active_guards = A.active_guards],
              saved_env)

\* The FunctionDef arm of analyze_statement: the body is analysed in a scope of
\* the globals and the parameters, and the caller's scope is restored after it.
analyze_function_def(A, stmt) ==
    LeaveFunction(A,
                  analyze_statements(
                      [SetDep(A, "uses_funcs") EXCEPT
                          !.functions = @ \cup {stmt.name},
                          !.variables = A.global_variables
                                        \cup {param[1] : param \in Range(stmt.params)},
                          !.guarded_scopes = <<>>,
                          !.active_guards = <<>>,
                          !.block_depth = 0],
                      stmt.body),
                  current_env(A))

\* The end of the If arm: the entry of if_log
IfLog(A, stmt, branch_env, exits) ==
    [A EXCEPT !.if_log = Append(@, [incoming |-> branch_env,
                                    exits |-> exits,
                                    has_else |-> stmt.else_block # None,
                                    after |-> current_env(A)])]

\* The If arm after its branches: the continuing environments are merged and
\* the merge is applied
IfMerge(A, stmt, branch_env, continuing_envs, exits) ==
    IfLog(apply_env(A, merge_continuing_envs(continuing_envs, branch_env)),
          stmt, branch_env, exits)

IfAfterElse(else, stmt, branch_env, elifs) ==
    IfMerge(else.A, stmt, branch_env,
            IF else.terminates THEN elifs.envs ELSE Append(elifs.envs, else.env),
            Append(elifs.exits, [block |-> stmt.else_block[1], env |-> else.env]))

\* The If arm after the else-if loop: the else block, or the incoming scope
\* when there is none
IfElse(elifs, stmt, branch_env) ==
    IF stmt.else_block = None
    THEN IfMerge(elifs.A, stmt, branch_env, Append(elifs.envs, branch_env), elifs.exits)
    ELSE Only({IfAfterElse(else, stmt, branch_env, elifs) :
                  else \in {analyze_block_in_scope(elifs.A, stmt.else_block[1],
                                                   branch_env, None)}})

IfAfterThen(then, stmt, branch_env) ==
    Only({IfElse(elifs, stmt, branch_env) :
             elifs \in {AnalyzeElseIfBlocks(
                           then.A, stmt.else_if_blocks, branch_env,
                           IF then.terminates THEN <<>> ELSE <<then.env>>,
                           <<[block |-> stmt.then_block, env |-> then.env]>>)}})

\* The If arm after the condition: every branch starts from branch_env
IfBranches(A, stmt, branch_env) ==
    Only({IfAfterThen(then, stmt, branch_env) :
             then \in {analyze_block_in_scope(A, stmt.then_block, branch_env,
                                              simple_guard_key(stmt.condition))}})

IfAfterCondition(A, stmt) == IfBranches(A, stmt, current_env(A))

\* The If arm of analyze_statement
analyze_if(A, stmt) ==
    Only({IfAfterCondition(entered, stmt) : entered \in {analyze_expr(A, stmt.condition)}})

\* What an arm of analyze_statement does before it analyses the statement's
\* expressions
EnterStatement(A, stmt) ==
    CASE stmt.k = "Print" -> SetDep(A, "uses_io")
      [] stmt.k = "VarDecl" ->
            maybe_activate_true_guard(declare_variable_in_current_scope(A, stmt.name),
                                      stmt.name, stmt.var_type, stmt.value)
      [] stmt.k = "FlagSchemaDecl" ->
            declare_variable_in_current_scope(SetDep(A, "uses_args"), stmt.name)
      [] stmt.k = "ParseFlags" -> SetDep(A, "uses_args")
      [] stmt.k = "Assignment" ->
            IF is_variable_available(A, stmt.name) THEN A
            ELSE declare_variable_in_current_scope(A, stmt.name)
      [] stmt.k \in {"ForRange", "ForEach"} ->
            [A EXCEPT !.variables = @ \cup {stmt.variable}]
      [] stmt.k = "Allocate" ->
            [SetDep(A, "uses_heap") EXCEPT !.variables = @ \cup {stmt.name}]
      [] stmt.k = "Free" ->
            CheckKnown(SetDep(A, "uses_heap"), stmt.name, MsgFreeingUnknown)
      [] stmt.k = "FunctionCall" -> CheckFunction(SetDep(A, "uses_funcs"), stmt.name)
      [] stmt.k \in {"Increment", "Decrement"} ->
            IF is_variable_available(A, stmt.name) THEN A
            ELSE push_unknown_variable(A, stmt.name)
      [] stmt.k \in {"BufferDecl", "FileOpen", "TimerDecl"} ->
            [A EXCEPT !.variables = @ \cup {stmt.name}]
      [] stmt.k \in {"FileRead", "FileReadLine"} ->
            CheckKnown(A, stmt.buffer, MsgUnknownBuffer)
      [] stmt.k \in {"FileSeekLine", "FileSeekByte", "FileWrite", "FileWriteNewline",
                     "FileClose"} ->
            CheckKnown(A, stmt.file, MsgUnknownFile)
      [] stmt.k = "BufferResize" -> CheckKnown(A, stmt.name, MsgUnknownBuffer)
      [] stmt.k \in {"TimerStart", "TimerStop"} ->
            CheckKnown(A, stmt.name, MsgUnknownTimer)
      [] stmt.k = "GetTime" -> [A EXCEPT !.variables = @ \cup {stmt.into}]
      [] OTHER -> A

\* The expressions an arm of analyze_statement analyses, in its order (an
\* Option is the sequence of what it holds)
StatementExprs(stmt) ==
    CASE stmt.k \in {"Print", "Assignment", "ListAppend", "FileWrite"} -> <<stmt.value>>
      [] stmt.k \in {"VarDecl", "Return"} -> stmt.value
      [] stmt.k = "FlagSchemaDecl" -> stmt.default
      [] stmt.k = "While" -> <<stmt.condition>>
      [] stmt.k = "ForRange" -> <<stmt.range>>
      [] stmt.k = "ForEach" -> <<stmt.collection>>
      [] stmt.k = "Repeat" -> <<stmt.count>>
      [] stmt.k \in {"Allocate", "BufferDecl"} -> <<stmt.size>>
      [] stmt.k = "FunctionCall" -> stmt.args
      [] stmt.k \in {"ByteSet", "ElementSet"} -> <<stmt.index, stmt.value>>
      [] stmt.k \in {"FileOpen", "FileDelete"} -> <<stmt.path>>
      [] stmt.k = "FileSeekLine" -> <<stmt.line>>
      [] stmt.k = "FileSeekByte" -> <<stmt.byte>>
      [] stmt.k = "BufferResize" -> <<stmt.new_size>>
      [] stmt.k = "Exit" -> <<stmt.code>>
      [] stmt.k = "Wait" -> <<stmt.duration>>
      [] OTHER -> <<>>

\* What an arm of analyze_statement does after its expressions
LeaveStatement(A, stmt) ==
    CASE stmt.k = "Print" ->
            IF stmt.value.k = "StringLit" THEN SetDep(A, "uses_strings") ELSE A
      [] stmt.k \in {"BufferDecl", "BufferResize"} -> SetDep(A, "uses_heap")
      [] stmt.k \in {"FileOpen", "FileRead", "FileReadLine", "FileSeekLine",
                     "FileSeekByte", "FileWrite", "FileWriteNewline", "FileClose",
                     "FileDelete"} ->
            SetDep(A, "uses_io")
      [] OTHER -> A

\* The statements an arm of analyze_statement analyses last
StatementBody(stmt) ==
    CASE stmt.k \in {"While", "ForRange", "ForEach", "Repeat"} -> stmt.body
      [] stmt.k = "OnError" -> stmt.actions
      [] OTHER -> <<>>

\* Every arm but If and FunctionDef is: its first effects, its expressions in
\* order, its last effects, its body.
analyze_statement(A, stmt) ==
    CASE stmt.k = "If" -> analyze_if(A, stmt)
      [] stmt.k = "FunctionDef" -> analyze_function_def(A, stmt)
      [] OTHER ->
            analyze_statements(
                LeaveStatement(analyze_exprs(EnterStatement(A, stmt), StatementExprs(stmt)),
                               stmt),
                StatementBody(stmt))

RECURSIVE expr_uses_flag(_, _)
RECURSIVE FirstExprUsingFlag(_, _)
RECURSIVE statement_uses_flag(_, _)
RECURSIVE FirstStatementUsingFlag(_, _)

\* a.or_else(|| b) on Option values
OrElse(a, b) == IF a # None THEN a ELSE b

\* es.iter().find_map(|e| self.expr_uses_flag(e))
FirstExprUsingFlag(A, es) ==
    IF es = <<>> THEN None
    ELSE OrElse(expr_uses_flag(A, Head(es)), FirstExprUsingFlag(A, Tail(es)))

expr_uses_flag(A, expr) ==
    CASE expr.k = "Identifier" ->
            IF expr.name \in A.flag_variables THEN Some(expr.name) ELSE None
      [] expr.k = "FormatString" ->
            FirstExprUsingFlag(A, [i \in DOMAIN expr.parts |->
                CASE expr.parts[i].k = "Variable" -> Identifier(expr.parts[i].name)
                  [] expr.parts[i].k = "Expression" -> expr.parts[i].expr
                  [] OTHER -> IntegerLit(0)])
      [] expr.k = "BinaryOp" ->
            OrElse(expr_uses_flag(A, expr.left), expr_uses_flag(A, expr.right))
      [] expr.k = "UnaryOp" -> expr_uses_flag(A, expr.operand)
      [] expr.k = "FunctionCall" -> FirstExprUsingFlag(A, expr.args)
      [] expr.k = "ListLit" -> FirstExprUsingFlag(A, expr.elements)
      [] expr.k = "Range" ->
            OrElse(expr_uses_flag(A, expr.start), expr_uses_flag(A, expr.end))
      [] expr.k \in {"PropertyCheck", "Cast", "DurationCast"} ->
            expr_uses_flag(A, expr.value)
      [] expr.k \in {"ListAccess", "ElementAccess"} ->
            OrElse(expr_uses_flag(A, expr.list), expr_uses_flag(A, expr.index))
      [] expr.k = "ByteAccess" ->
            OrElse(expr_uses_flag(A, expr.buffer), expr_uses_flag(A, expr.index))
      [] expr.k = "TreatingAs" ->
            OrElse(expr_uses_flag(A, expr.value),
            OrElse(expr_uses_flag(A, expr.match_value),
                   expr_uses_flag(A, expr.replacement)))
      [] expr.k \in {"ArgumentAt", "EnvironmentVariableAt"} ->
            expr_uses_flag(A, expr.index)
      [] expr.k \in {"EnvironmentVariable", "EnvironmentVariableExists"} ->
            expr_uses_flag(A, expr.name)
      [] OTHER -> None

\* body.iter().find_map(|s| self.statement_uses_flag(s))
FirstStatementUsingFlag(A, body) ==
    IF body = <<>> THEN None
    ELSE OrElse(statement_uses_flag(A, Head(body)), FirstStatementUsingFlag(A, Tail(body)))

statement_uses_flag(A, stmt) ==
    CASE stmt.k \in {"Print", "Assignment"} -> expr_uses_flag(A, stmt.value)
      [] stmt.k \in {"VarDecl", "Return"} ->
            IF stmt.value = None THEN None ELSE expr_uses_flag(A, stmt.value[1])
      [] stmt.k = "If" ->
            OrElse(expr_uses_flag(A, stmt.condition),
            OrElse(FirstStatementUsingFlag(A, stmt.then_block),
            OrElse(FirstStatementUsingFlag(A,
                      [i \in DOMAIN stmt.else_if_blocks |->
                          If(stmt.else_if_blocks[i][1], stmt.else_if_blocks[i][2],
                             <<>>, None)]),
                   IF stmt.else_block = None THEN None
                   ELSE FirstStatementUsingFlag(A, stmt.else_block[1]))))
      [] stmt.k = "While" ->
            OrElse(expr_uses_flag(A, stmt.condition), FirstStatementUsingFlag(A, stmt.body))
      [] stmt.k = "ForRange" ->
            OrElse(expr_uses_flag(A, stmt.range), FirstStatementUsingFlag(A, stmt.body))
      [] stmt.k = "ForEach" ->
            OrElse(expr_uses_flag(A, stmt.collection), FirstStatementUsingFlag(A, stmt.body))
      [] stmt.k = "Repeat" ->
            OrElse(expr_uses_flag(A, stmt.count), FirstStatementUsingFlag(A, stmt.body))
      [] stmt.k = "Exit" -> expr_uses_flag(A, stmt.code)
      [] stmt.k = "Allocate" -> expr_uses_flag(A, stmt.size)
      [] stmt.k \in {"ByteSet", "ElementSet"} ->
            OrElse(expr_uses_flag(A, stmt.index), expr_uses_flag(A, stmt.value))
      [] stmt.k \in {"ListAppend", "FileWrite"} -> expr_uses_flag(A, stmt.value)
      [] stmt.k = "FileOpen" -> expr_uses_flag(A, stmt.path)
      [] stmt.k = "OnError" -> FirstStatementUsingFlag(A, stmt.actions)
      [] stmt.k = "BufferResize" -> expr_uses_flag(A, stmt.new_size)
      [] stmt.k = "FunctionCall" -> FirstExprUsingFlag(A, stmt.args)
      [] stmt.k = "Wait" -> expr_uses_flag(A, stmt.duration)
      [] OTHER -> None

\* First pass of analyze, one statement: functions, globals and flag schemas.
\* explicit_parse_seen is the loop's local.
CollectStatement(A, stmt, explicit_parse_seen) ==
    CASE stmt.k = "FunctionDef" -> [A EXCEPT !.functions = @ \cup {stmt.name}]
      [] stmt.k \in {"VarDecl", "BufferDecl", "Allocate", "TimerDecl", "FileOpen"} ->
            [A EXCEPT !.global_variables = @ \cup {stmt.name}]
      [] stmt.k = "GetTime" -> [A EXCEPT !.global_variables = @ \cup {stmt.into}]
      [] stmt.k = "FlagSchemaDecl" ->
            LET A1 == [A EXCEPT !.flag_variables = @ \cup {stmt.name},
                                !.global_variables = @ \cup {stmt.name}]
            IN  IF explicit_parse_seen THEN push_error(A1, MsgFlagsAfterParse) ELSE A1
      [] stmt.k = "ParseFlags" ->
            IF explicit_parse_seen THEN push_error(A, MsgDuplicateParse) ELSE A
      [] OTHER -> A

RECURSIVE CollectStatements(_, _, _)
CollectStatements(A, statements, explicit_parse_seen) ==
    IF statements = <<>> THEN A
    ELSE CollectStatements(CollectStatement(A, Head(statements), explicit_parse_seen),
                           Tail(statements),
                           explicit_parse_seen \/ Head(statements).k = "ParseFlags")

\* The index after the parse marker, or after the last flag declaration
ParsePoint(statements) ==
    LET marks == {i \in DOMAIN statements : statements[i].k = "ParseFlags"}
        schemas == {i \in DOMAIN statements : statements[i].k = "FlagSchemaDecl"}
        Least(S) == CHOOSE i \in S : \A j \in S : i <= j
        Greatest(S) == CHOOSE i \in S : \A j \in S : i >= j
    IN  IF marks # {} THEN Least(marks)
        ELSE IF schemas # {} THEN Greatest(schemas)
        ELSE 0

\* The error of a statement that uses a flag before the parse point
ReportFlagUse(A, flag_name) ==
    IF flag_name = None THEN A
    ELSE push_error(A, MsgFlagVariableOpen \o flag_name[1] \o MsgUsedBeforeParsed)

\* The flag-use check over statements[i..parse_point]
RECURSIVE CheckFlagUses(_, _, _, _)
CheckFlagUses(A, statements, i, parse_point) ==
    IF i > parse_point THEN A
    ELSE CheckFlagUses(
            ReportFlagUse(A, IF statements[i].k \in {"FlagSchemaDecl", "ParseFlags"}
                             THEN None
                             ELSE statement_uses_flag(A, statements[i])),
            statements, i + 1, parse_point)

\* self.variables = self.global_variables.clone()
SeedGlobals(A) == [A EXCEPT !.variables = A.global_variables]

\* analyze, up to the second pass: the first pass, the flag-use check and the
\* seeding of the scope with the globals.
CollectGlobals(A, statements) ==
    SeedGlobals(CheckFlagUses(CollectStatements(A, statements, FALSE), statements, 1,
                              ParsePoint(statements)))

\* check_for_typos for the candidates in the order the HashSet yields them
TypoError(id) == MsgUnknownIdentifierOpen \o id \o MsgQuote

IsTypoReported(A, id) ==
    /\ ~ \E i \in DOMAIN A.errors : contains(A.errors[i], id)
    /\ ~ (starts_with(id, Underscore) \/ id \in {StdinName, StdoutName, StderrName})
    /\ KeywordNear(id) # None

RECURSIVE TypoErrors(_, _)
TypoErrors(A, unknown) ==
    IF unknown = <<>> THEN <<>>
    ELSE (IF IsTypoReported(A, Head(unknown)) THEN <<TypoError(Head(unknown))>> ELSE <<>>)
         \o TypoErrors(A, Tail(unknown))

\* The typo errors put after the errors of the second pass
append_typos(A, unknown) == [A EXCEPT !.errors = @ \o TypoErrors(A, unknown)]

check_for_typos(A, unknown) == [A EXCEPT !.errors = TypoErrors(A, unknown) \o @]

\* All orders in which a HashSet's iterator can yield the elements of S
Orders(S) ==
    {order \in [1..Cardinality(S) -> S] : \A x \in S : \E i \in DOMAIN order : order[i] = x}

\* -------------------------------------------- code generator (codegen/mod.rs)
\* The generator's state is a record G with the fields of struct CodeGenerator
\* that the modelled arms read or write.  Emitted text is a sequence of
\* instructions, one per emitted line; comments are left out.

\* Operands
Reg(r) == [t |-> "reg", r |-> r]

Imm(n) == [t |-> "imm", n |-> n]

\* [base + disp]
Mem(base, disp) == [t |-> "mem", base |-> base, disp |-> disp]

\* qword [rel _last_error]
LastError == [t |-> "sym", name |-> "_last_error"]

\* One emitted line: an instruction with up to two operands
Ins(op, a, b) == [op |-> op, a |-> a, b |-> b]

\* "<label>:"
LabelLine(label) == Ins("label", label, None)

\* The size of a stack slot, a list element and a pushed word
WordBytes == 8

\* List structure: [capacity:8][length:8][elem_size:8][data...]
ListHeaderBytes == 24

param_regs == <<"rdi", "rsi", "rdx", "rcx", "r8", "r9">>

\* CodeGenerator::new, and set_shared_lib_mode
NewCodeGenerator(shared_lib_mode) ==
    [output |-> <<>>,
     functions_section |-> <<>>,
     label_counter |-> 0,
     variables |-> <<>>,
     stack_offset |-> 0,
     shared_lib_mode |-> shared_lib_mode,
     exported_functions |-> <<>>,
     uses_funcs |-> FALSE]

\* emit and emit_indent
emit(G, line) == [G EXCEPT !.output = Append(@, line)]

\* The decimal digits of a natural number, as Display writes them
RECURSIVE Decimal(_)
Decimal(n) ==
    LET digit == <<"0", "1", "2", "3", "4", "5", "6", "7", "8", "9">>[(n % 10) + 1]
    IN  IF n < 10 THEN <<digit>> ELSE Append(Decimal(n \div 10), digit)

\* format!(".{}_{}", prefix, self.label_counter)
LocalLabel(prefix, n) == <<".">> \o prefix \o <<"_">> \o Decimal(n)

\* new_label: the generator after it and the label
new_label(G, prefix) ==
    [G |-> [G EXCEPT !.label_counter = @ + 1], label |-> LocalLabel(prefix, G.label_counter)]

alloc_var(G, name) ==
    [G EXCEPT !.stack_offset = @ + WordBytes,
              !.variables = [n \in (DOMAIN @) \cup {name} |->
                                IF n = name THEN G.stack_offset + WordBytes ELSE @[n]]]

get_var(G, name) == IF name \in DOMAIN G.variables THEN Some(G.variables[name]) ELSE None

\* name.replace(' ', "_").replace('-', "_")
func_label(name) == [i \in DOMAIN name |-> IF name[i] \in {" ", "-"} THEN "_" ELSE name[i]]

\* (stack_offset + 15) & !15
frame_size(stack_offset) == ((stack_offset + 15) \div 16) * 16

RECURSIVE generate_expr(_, _)
RECURSIVE generate_statement(_, _)
RECURSIVE generate_statements(_, _)
RECURSIVE PushArgsRightToLeft(_, _)
RECURSIVE PassArgs(_, _, _)
RECURSIVE AllocParams(_, _)
RECURSIVE ParamStores(_, _, _)

\* The ListAccess and ElementAccess arms of generate_expr emit the same
\* sequence but for the label names, the lowest index, the jump taken when the
\* index is within the length and the conversion of a 1-based index.
BoundsCheckedAccess(G, expr, prefix, lowest, ok_jump, one_based) ==
    LET ok == new_label(G, prefix \o <<"_", "o", "k">>)
        error == new_label(ok.G, prefix \o <<"_", "e", "r", "r">>)
        done == new_label(error.G, prefix \o <<"_", "d", "o", "n", "e">>)
        G1 == emit(generate_expr(done.G, expr.list), Ins("push", Reg("rax"), None))
        G2 == emit(generate_expr(G1, expr.index), Ins("mov", Reg("rcx"), Reg("rax")))
        check == <<Ins("pop", Reg("rbx"), None),
                   Ins("cmp", Reg("rcx"), Imm(lowest)),
                   Ins("jl", error.label, None),
                   Ins("mov", Reg("rdx"), Mem("rbx", WordBytes)),
                   Ins("cmp", Reg("rcx"), Reg("rdx")),
                   Ins(ok_jump, ok.label, None)>>
        failure == <<LabelLine(error.label),
                     Ins("mov", LastError, Imm(1)),
                     Ins("xor", Reg("rax"), Reg("rax")),
                     Ins("jmp", done.label, None)>>
        success == <<LabelLine(ok.label)>>
                   \o (IF one_based THEN <<Ins("dec", Reg("rcx"), None)>> ELSE <<>>)
                   \o <<Ins("mov", Reg("rax"), Reg("rcx")),
                        Ins("shl", Reg("rax"), Imm(3)),
                        Ins("add", Reg("rax"), Imm(ListHeaderBytes)),
                        Ins("add", Reg("rax"), Reg("rbx")),
                        Ins("mov", Reg("rax"), Mem("rax", 0)),
                        LabelLine(done.label)>>
    IN  [G2 EXCEPT !.output = @ \o check \o failure \o success]

\* Expr::ListAccess (0-indexed)
generate_list_access(G, expr) == BoundsCheckedAccess(G, expr, <<"l", "i", "s", "t">>, 0, "jl", FALSE)

\* An element access that checks the index as a 0-based one
generate_element_access_zero_based(G, expr) ==
    BoundsCheckedAccess(G, expr, <<"e", "l", "e", "m">>, 0, "jl", TRUE)

\* Expr::ElementAccess (1-indexed)
generate_element_access(G, expr) == BoundsCheckedAccess(G, expr, <<"e", "l", "e", "m">>, 1, "jle", TRUE)

\* for arg in args.iter().rev() { generate_expr(arg); push rax }
PushArgsRightToLeft(G, args) ==
    IF args = <<>> THEN G
    ELSE Only({PushArgsRightToLeft(pushed, SubSeq(args, 1, Len(args) - 1)) :
                  pushed \in {emit(generate_expr(G, args[Len(args)]),
                                   Ins("push", Reg("rax"), None))}})

\* for i in 0..reg_count { pop param_regs[i] }
PopParamRegs(G, reg_count) ==
    [G EXCEPT !.output = @ \o [i \in 1..reg_count |-> Ins("pop", Reg(param_regs[i]), None)]]

\* Steps 4 to 6 of Expr::FunctionCall: the padding when the number of stack
\* arguments is odd, the call, and the clean-up of stack arguments and padding
CallAndCleanUp(G, name, stack_arg_count, needs_pad) ==
    [G EXCEPT !.output =
        @ \o (IF needs_pad THEN <<Ins("sub", Reg("rsp"), Imm(WordBytes))>> ELSE <<>>)
          \o <<Ins("call", func_label(name), None)>>
          \o (IF stack_arg_count * WordBytes + (IF needs_pad THEN WordBytes ELSE 0) > 0
              THEN <<Ins("add", Reg("rsp"),
                         Imm(stack_arg_count * WordBytes
                             + (IF needs_pad THEN WordBytes ELSE 0)))>>
              ELSE <<>>)]

\* args.len().saturating_sub(param_regs.len())
StackArgCount(args) ==
    IF Len(args) > Len(param_regs) THEN Len(args) - Len(param_regs) ELSE 0

\* Expr::FunctionCall
generate_function_call_expr(G, expr) ==
    CallAndCleanUp(
        PopParamRegs(PushArgsRightToLeft(G, expr.args),
                     Min2(Len(expr.args), Len(param_regs))),
        expr.name, StackArgCount(expr.args), (StackArgCount(expr.args) % 2) # 0)

generate_expr(G, expr) ==
    CASE expr.k = "IntegerLit" -> emit(G, Ins("mov", Reg("rax"), Imm(expr.v)))
      [] expr.k = "BoolLit" ->
            emit(G, Ins("mov", Reg("rax"), Imm(IF expr.b THEN 1 ELSE 0)))
      [] expr.k = "Identifier" ->
            IF get_var(G, expr.name) = None THEN G
            ELSE emit(G, Ins("mov", Reg("rax"), Mem("rbp", 0 - get_var(G, expr.name)[1])))
      [] expr.k = "FunctionCall" -> generate_function_call_expr(G, expr)
      [] expr.k = "ListAccess" -> generate_list_access(G, expr)
      [] expr.k = "ElementAccess" -> generate_element_access(G, expr)
      [] OTHER -> G

\* The argument loop of Statement::FunctionCall, from the i-th argument (0-based)
PassArgs(G, args, i) ==
    IF i >= Len(args) THEN G
    ELSE Only({PassArgs(passed, args, i + 1) :
                  passed \in {emit(generate_expr(G, args[i + 1]),
                                   IF i < Len(param_regs)
                                   THEN Ins("mov", Reg(param_regs[i + 1]), Reg("rax"))
                                   ELSE Ins("push", Reg("rax"), None))}})

\* Statement::FunctionCall
generate_function_call(G, stmt) ==
    emit(PassArgs([G EXCEPT !.uses_funcs = TRUE], stmt.args, 0),
         Ins("call", func_label(stmt.name), None))

\* for (param_name, param_type) in params { self.alloc_var(param_name) }
AllocParams(G, params) ==
    IF params = <<>> THEN G
    ELSE AllocParams(alloc_var(G, Head(params)[1]), Tail(params))

\* The parameter stores of Statement::FunctionDef, from the i-th parameter
\* (0-based): the lines emitted
ParamStores(G, params, i) ==
    IF i >= Len(params) THEN <<>>
    ELSE LET offset == get_var(G, params[i + 1][1])
             stack_arg_off == 16 + (i - Len(param_regs)) * WordBytes
             lines ==
                IF offset = None THEN <<>>
                ELSE IF i < Len(param_regs)
                THEN <<Ins("mov", Mem("rbp", 0 - offset[1]), Reg(param_regs[i + 1]))>>
                ELSE <<Ins("mov", Reg("rax"), Mem("rbp", stack_arg_off)),
                       Ins("mov", Mem("rbp", 0 - offset[1]), Reg("rax"))>>
         IN  lines \o ParamStores(G, params, i + 1)

\* The default epilogue of a body that has no Return statement
WithDefaultEpilogue(G, body) ==
    IF \E i \in DOMAIN body : body[i].k = "Return" THEN G
    ELSE emit(G, Ins("FUNC_EPILOGUE", None, None))

\* The second pass of Statement::FunctionDef: the function is emitted into
\* functions_section and the outer state is restored
EmitFunction(G, body, stmt) ==
    [body EXCEPT !.output = G.output,
                 !.variables = G.variables,
                 !.stack_offset = G.stack_offset,
                 !.functions_section =
                     @ \o <<LabelLine(func_label(stmt.name)),
                            Ins("FUNC_PROLOGUE", Imm(frame_size(body.stack_offset)), None)>>
                       \o ParamStores(body, stmt.params, 0)
                       \o body.output]

\* Statement::FunctionDef
generate_function_def(G, stmt) ==
    EmitFunction(
        G,
        WithDefaultEpilogue(
            generate_statements(
                AllocParams([G EXCEPT !.uses_funcs = TRUE,
                                      !.exported_functions =
                                          IF G.shared_lib_mode
                                          THEN Append(@, func_label(stmt.name)) ELSE @,
                                      !.output = <<>>,
                                      !.variables = <<>>,
                                      !.stack_offset = 0],
                            stmt.params),
                stmt.body),
            stmt.body),
        stmt)

\* The store of Statement::VarDecl into the variable's slot
StoreVarDecl(G, stmt, slot) ==
    IF stmt.value = None THEN emit(G, Ins("mov", slot, Imm(0)))
    ELSE emit(generate_expr(G, stmt.value[1]), Ins("mov", slot, Reg("rax")))

VarDeclSlot(G, stmt) == StoreVarDecl(G, stmt, Mem("rbp", 0 - get_var(G, stmt.name)[1]))

\* Statement::VarDecl, for a variable that is not a buffer
generate_var_decl(G, stmt) ==
    VarDeclSlot(IF get_var(G, stmt.name) = None THEN alloc_var(G, stmt.name) ELSE G, stmt)

\* mov [rbp-offset], rax for the slot the name has
StoreSlot(G, name) == emit(G, Ins("mov", Mem("rbp", 0 - G.variables[name]), Reg("rax")))

\* let offset = self.alloc_var(name); mov [rbp-offset], rax
StoreNewSlot(G, name) == StoreSlot(alloc_var(G, name), name)

\* Statement::Allocate
generate_allocate(G, stmt) ==
    StoreNewSlot(emit(generate_expr(G, stmt.size), Ins("HEAP_ALLOC", Reg("rax"), None)),
                 stmt.name)

\* Statement::BufferDecl: a sized buffer, or a dynamic one when the size is 0
generate_buffer_decl(G, stmt) ==
    StoreNewSlot(
        IF stmt.size = IntegerLit(0)
        THEN emit(G, Ins("call", <<"_alloc_buffer">>, None))
        ELSE [generate_expr(G, stmt.size) EXCEPT !.output =
                 @ \o <<Ins("mov", Reg("rdi"), Reg("rax")),
                        Ins("call", <<"_alloc_buffer_sized">>, None)>>],
        stmt.name)

\* The lines of Statement::FileOpen after the store of the descriptor
FileOpenCheck(G, ok, done) ==
    [done.G EXCEPT !.output =
        @ \o <<Ins("test", Reg("rax"), Reg("rax")),
               Ins("jns", ok.label, None),
               Ins("neg", Reg("rax"), None),
               Ins("mov", LastError, Reg("rax")),
               Ins("jmp", done.label, None),
               LabelLine(ok.label),
               Ins("mov", LastError, Imm(0)),
               Ins("mov", Reg("rdi"), Reg("rax")),
               Ins("call", <<"_register_fd">>, None),
               LabelLine(done.label)>>]

FileOpenLabels(G, ok) ==
    FileOpenCheck(G, ok, new_label(ok.G, <<"f", "i", "l", "e", "_", "d", "o", "n", "e">>))

\* Statement::FileOpen, for a path that is a string literal
generate_file_open(G, stmt) ==
    FileOpenLabels(
        G,
        new_label(
            StoreNewSlot(
                [G EXCEPT !.output =
                    @ \o <<Ins("lea", Reg("rdi"), stmt.path),
                           Ins(CASE stmt.mode = "Reading" -> "FILE_OPEN_READ"
                                 [] stmt.mode = "Writing" -> "FILE_OPEN_WRITE"
                                 [] OTHER -> "FILE_OPEN_APPEND",
                               Reg("rdi"), None)>>],
                stmt.name),
            <<"f", "i", "l", "e", "_", "o", "k">>))

\* TIMER_SIZE: the bytes of a timer struct
TimerBytes == 56

\* The lines of Statement::TimerDecl, for the slot the name was given
TimerInit(G, name) ==
    [G EXCEPT !.output =
        @ \o <<Ins("sub", Reg("rsp"), Imm(TimerBytes)),
               Ins("lea", Reg("rax"),
                   Mem("rbp", 0 - (G.variables[name] + (TimerBytes - WordBytes)))),
               Ins("TIMER_INIT", Reg("rax"), None)>>]

\* Statement::TimerDecl
generate_timer_decl(G, stmt) == TimerInit(alloc_var(G, stmt.name), stmt.name)

\* Statement::GetTime
generate_get_time(G, stmt) ==
    StoreSlot(emit(alloc_var(G, stmt.into), Ins("TIME_GET", None, None)), stmt.into)

\* self.variables.insert(name, offset)
insert(variables, name, offset) ==
    [n \in (DOMAIN variables) \cup {name} |-> IF n = name THEN offset ELSE variables[n]]

\* The jump generate_condition emits for an integer comparison: taken when
\* the comparison is false
ComparisonJump ==
    [Equal |-> "jne", NotEqual |-> "je", Greater |-> "jle", Less |-> "jge",
     GreaterEqual |-> "jl", LessEqual |-> "jg"]

\* generate_condition, for an integer comparison and for a condition that is
\* its value
generate_condition(G, condition, false_label) ==
    IF condition.k = "BinaryOp" /\ condition.op \in DOMAIN ComparisonJump
    THEN [generate_expr(emit(generate_expr(G, condition.right), Ins("push", Reg("rax"), None)),
                        condition.left)
             EXCEPT !.output = @ \o <<Ins("pop", Reg("rbx"), None),
                                      Ins("cmp", Reg("rax"), Reg("rbx")),
                                      Ins(ComparisonJump[condition.op], false_label, None)>>]
    ELSE [generate_expr(G, condition)
             EXCEPT !.output = @ \o <<Ins("test", Reg("rax"), Reg("rax")),
                                      Ins("jz", false_label, None)>>]

\* Statement::Assignment
generate_assignment(G, stmt) ==
    IF get_var(G, stmt.name) = None THEN StoreNewSlot(generate_expr(G, stmt.value), stmt.name)
    ELSE StoreSlot(generate_expr(G, stmt.value), stmt.name)

\* Statement::If, one else-if block: the condition, the block, the jump to
\* the end and the label the false condition jumps to
ElseIfBlock(pair, end_label, next) ==
    [generate_statements(generate_condition(next.G, pair[1], next.label), pair[2])
        EXCEPT !.output = @ \o <<Ins("jmp", end_label, None), LabelLine(next.label)>>]

\* Statement::If, the loop over else_if_blocks from the i-th block (0-based)
RECURSIVE ElseIfs(_, _, _, _)
ElseIfs(G, stmt, i, end_label) ==
    IF i >= Len(stmt.else_if_blocks) THEN G
    ELSE Only({ElseIfs(after, stmt, i + 1, end_label) :
                  after \in {ElseIfBlock(
                                stmt.else_if_blocks[i + 1], end_label,
                                IF i + 1 < Len(stmt.else_if_blocks) \/ stmt.else_block # None
                                THEN new_label(G, <<"e", "l", "i", "f">>)
                                ELSE [G |-> G, label |-> end_label])}})

ElseBlock(G, stmt) ==
    IF stmt.else_block = None THEN G ELSE generate_statements(G, stmt.else_block[1])

IfArms(stmt, end, else) ==
    emit(ElseBlock(ElseIfs([generate_statements(
                               generate_condition(else.G, stmt.condition, else.label),
                               stmt.then_block)
                              EXCEPT !.output = @ \o <<Ins("jmp", end.label, None),
                                                       LabelLine(else.label)>>],
                           stmt, 0, end.label),
                   stmt),
         LabelLine(end.label))

IfLabels(stmt, end) == IfArms(stmt, end, new_label(end.G, <<"e", "l", "s", "e">>))

\* Statement::If
generate_if(G, stmt) == IfLabels(stmt, new_label(G, <<"i", "f", "_", "e", "n", "d">>))

WhileBody(stmt, start, end) ==
    [generate_statements(
         generate_condition(emit(end.G, LabelLine(start.label)), stmt.condition, end.label),
         stmt.body)
        EXCEPT !.output = @ \o <<Ins("jmp", start.label, None), LabelLine(end.label)>>]

WhileLabels(stmt, start) ==
    WhileBody(stmt, start,
              new_label(start.G, <<"w", "h", "i", "l", "e", "_", "e", "n", "d">>))

\* Statement::While
generate_while(G, stmt) ==
    WhileLabels(stmt, new_label(G, <<"w", "h", "i", "l", "e", "_", "s", "t", "a", "r", "t">>))

\* Statement::ForRange: the loop, for the offsets of the variable and of its end
ForLoop(G, stmt, start_label, end_label, var_offset, end_offset) ==
    [generate_statements(
         [G EXCEPT !.output =
             @ \o <<LabelLine(start_label),
                    Ins("mov", Reg("rax"), Mem("rbp", 0 - var_offset)),
                    Ins("cmp", Reg("rax"), Mem("rbp", 0 - end_offset)),
                    Ins("jge", end_label, None)>>],
         stmt.body)
        EXCEPT !.output = @ \o <<Ins("inc", Mem("rbp", 0 - var_offset), None),
                                 Ins("jmp", start_label, None),
                                 LabelLine(end_label)>>]

\* Statement::ForRange: the end of the range is stored, one more when the
\* range is inclusive
ForEnd(G, stmt, start_label, end_label, var_offset) ==
    ForLoop(emit(IF stmt.range.inclusive THEN emit(G, Ins("inc", Reg("rax"), None)) ELSE G,
                 Ins("mov", Mem("rbp", 0 - G.stack_offset), Reg("rax"))),
            stmt, start_label, end_label, var_offset, G.stack_offset)

\* Statement::ForRange: the start of the range is stored in the slot of the
\* variable, which is "_iter" as well
ForFirstSlot(G, stmt, start_label, end_label) ==
    ForEnd(alloc_var(
               generate_expr(
                   emit([G EXCEPT !.variables = insert(@, IterName, G.stack_offset)],
                        Ins("mov", Mem("rbp", 0 - G.stack_offset), Reg("rax"))),
                   stmt.range.end),
               stmt.variable \o s_end),
           stmt, start_label, end_label, G.stack_offset)

ForLabels(stmt, start, end) ==
    IF stmt.range.k = "Range"
    THEN ForFirstSlot(alloc_var(generate_expr(end.G, stmt.range.start), stmt.variable),
                  stmt, start.label, end.label)
    ELSE end.G

ForStartLabel(stmt, start) ==
    ForLabels(stmt, start, new_label(start.G, <<"f", "o", "r", "_", "e", "n", "d">>))

\* Statement::ForRange
generate_for_range(G, stmt) ==
    ForStartLabel(stmt, new_label(G, <<"f", "o", "r", "_", "s", "t", "a", "r", "t">>))

s_repeat_counter ==
    <<"_", "r", "e", "p", "e", "a", "t", "_", "c", "o", "u", "n", "t", "e", "r">>

\* Statement::Repeat: the loop, for the offset of the counter
RepeatBody(G, stmt, start_label, end_label, counter_offset) ==
    [generate_statements(
         [G EXCEPT !.output =
             @ \o <<Ins("mov", Mem("rbp", 0 - counter_offset), Reg("rax")),
                    LabelLine(start_label),
                    Ins("cmp", Mem("rbp", 0 - counter_offset), Imm(0)),
                    Ins("jle", end_label, None)>>],
         stmt.body)
        EXCEPT !.output = @ \o <<Ins("dec", Mem("rbp", 0 - counter_offset), None),
                                 Ins("jmp", start_label, None),
                                 LabelLine(end_label)>>]

RepeatCounter(G, stmt, start_label, end_label) ==
    RepeatBody(G, stmt, start_label, end_label, G.stack_offset)

RepeatLabels(stmt, start, end) ==
    RepeatCounter(alloc_var(generate_expr(end.G, stmt.count), s_repeat_counter),
                  stmt, start.label, end.label)

RepeatStartLabel(stmt, start) ==
    RepeatLabels(stmt, start,
                 new_label(start.G, <<"r", "e", "p", "e", "a", "t", "_", "e", "n", "d">>))

\* Statement::Repeat
generate_repeat(G, stmt) ==
    RepeatStartLabel(
        stmt, new_label(G, <<"r", "e", "p", "e", "a", "t", "_", "s", "t", "a", "r", "t">>))

\* Statement::Increment and Statement::Decrement
generate_step(G, stmt, op) ==
    IF get_var(G, stmt.name) = None THEN G
    ELSE emit(G, Ins(op, Mem("rbp", 0 - get_var(G, stmt.name)[1]), None))

\* A line that is a comment
Comment(text) == Ins("comment", text, None)

generate_statement(G, stmt) ==
    CASE stmt.k = "VarDecl" -> generate_var_decl(G, stmt)
      [] stmt.k = "Allocate" -> generate_allocate(G, stmt)
      [] stmt.k = "BufferDecl" -> generate_buffer_decl(G, stmt)
      [] stmt.k = "FileOpen" -> generate_file_open(G, stmt)
      [] stmt.k = "TimerDecl" -> generate_timer_decl(G, stmt)
      [] stmt.k = "GetTime" -> generate_get_time(G, stmt)
      [] stmt.k = "Return" ->
            emit(IF stmt.value = None THEN G ELSE generate_expr(G, stmt.value[1]),
                 Ins("FUNC_EPILOGUE", None, None))
      [] stmt.k = "FunctionCall" -> generate_function_call(G, stmt)
      [] stmt.k = "FunctionDef" -> generate_function_def(G, stmt)
      [] stmt.k = "Assignment" -> generate_assignment(G, stmt)
      [] stmt.k = "If" -> generate_if(G, stmt)
      [] stmt.k = "While" -> generate_while(G, stmt)
      [] stmt.k = "ForRange" -> generate_for_range(G, stmt)
      [] stmt.k = "Repeat" -> generate_repeat(G, stmt)
      [] stmt.k = "Increment" -> generate_step(G, stmt, "inc")
      [] stmt.k = "Decrement" -> generate_step(G, stmt, "dec")
      [] stmt.k = "Break" -> emit(G, Comment("break"))
      [] stmt.k = "Continue" -> emit(G, Comment("continue"))
      [] OTHER -> G

\* for stmt in statements { self.generate_statement(stmt) }
generate_statements(G, statements) ==
    IF statements = <<>> THEN G
    ELSE Only({generate_statements(after, Tail(statements)) :
                  after \in {generate_statement(G, Head(statements))}})

\* The text generate returns: the lines of section .text, _start first in
\* executable mode
Assemble(G) ==
    IF G.shared_lib_mode THEN G.functions_section
    ELSE <<Ins("push", Reg("rbp"), None), Ins("mov", Reg("rbp"), Reg("rsp"))>>
         \o (IF G.stack_offset > 0
             THEN <<Ins("sub", Reg("rsp"), Imm(frame_size(G.stack_offset)))>>
             ELSE <<>>)
         \o G.output \o <<Ins("EXIT", Imm(0), None)>>
         \o G.functions_section

\* generate: the generator after the statements
generate(G, prog) == generate_statements(G, prog.statements)

\* ------------------------------------------------------------ the machine
\* The x86-64 instructions the modelled arms emit, executed one per step.  The
\* stack grows down from address 0; a cell that was never written holds junk.

RegNames == {"rax", "rbx", "rcx", "rdx", "rdi", "rsi", "r8", "r9", "rsp", "rbp"}

\* The machine before the program starts: rdi and rsi as the caller of a
\* library function sets them, memory as the caller prepared it
NewCpu(junk, rdi, rsi, mem) ==
    [status |-> "idle",
     pc |-> 0,
     regs |-> [r \in RegNames |-> CASE r = "rsp" -> 0
                                    [] r = "rdi" -> rdi
                                    [] r = "rsi" -> rsi
                                    [] OTHER -> junk],
     mem |-> mem,
     flags |-> [left |-> 0, right |-> 0],
     last_error |-> 0,
     loads |-> <<>>,
     junk |-> junk]

Read(cpu, address) == IF address \in DOMAIN cpu.mem THEN cpu.mem[address] ELSE cpu.junk

Write(cpu, address, value) ==
    [cpu EXCEPT !.mem = [a \in (DOMAIN @) \cup {address} |->
                            IF a = address THEN value ELSE @[a]]]

Address(cpu, operand) == cpu.regs[operand.base] + operand.disp

Value(cpu, operand) ==
    CASE operand.t = "reg" -> cpu.regs[operand.r]
      [] operand.t = "imm" -> operand.n
      [] operand.t = "mem" -> Read(cpu, Address(cpu, operand))
      [] operand.t = "sym" -> cpu.last_error

Store(cpu, operand, value) ==
    CASE operand.t = "reg" -> [cpu EXCEPT !.regs[operand.r] = value]
      [] operand.t = "mem" -> Write(cpu, Address(cpu, operand), value)
      [] operand.t = "sym" -> [cpu EXCEPT !.last_error = value]

Push(cpu, value) ==
    Write([cpu EXCEPT !.regs["rsp"] = @ - WordBytes], cpu.regs["rsp"] - WordBytes, value)

\* The machine after the pop, and the value popped
Popped(cpu) == [cpu EXCEPT !.regs["rsp"] = @ + WordBytes]

Top(cpu) == Read(cpu, cpu.regs["rsp"])

LabelIndex(text, label) ==
    CHOOSE i \in DOMAIN text : text[i].op = "label" /\ text[i].a = label

Goto(cpu, text, label) == [cpu EXCEPT !.pc = LabelIndex(text, label)]

\* ret: to the popped address; address 0 is the caller of a library function
Ret(cpu) ==
    LET target == Top(cpu)
    IN  IF target = 0 THEN [Popped(cpu) EXCEPT !.status = "halted", !.pc = 0]
        ELSE [Popped(cpu) EXCEPT !.pc = target]

\* FUNC_PROLOGUE n: push rbp; mov rbp, rsp; sub rsp, n
FuncPrologue(cpu, n) ==
    LET pushed == Push(cpu, cpu.regs["rbp"])
    IN  [pushed EXCEPT !.regs["rbp"] = pushed.regs["rsp"],
                       !.regs["rsp"] = pushed.regs["rsp"] - n]

\* FUNC_EPILOGUE: mov rsp, rbp; pop rbp; ret
FuncEpilogue(cpu) ==
    LET unwound == [cpu EXCEPT !.regs["rsp"] = cpu.regs["rbp"]]
    IN  Ret([Popped(unwound) EXCEPT !.regs["rbp"] = Top(unwound)])

\* The machine after the instruction at pc
Execute(cpu, text) ==
    LET ins == text[cpu.pc]
        next == [cpu EXCEPT !.pc = @ + 1]
    IN  CASE ins.op = "label" -> next
          [] ins.op = "mov" ->
                LET moved == Store(next, ins.a, Value(cpu, ins.b))
                IN  IF ins.b.t = "mem"
                    THEN [moved EXCEPT !.loads = Append(@, Address(cpu, ins.b))]
                    ELSE moved
          [] ins.op = "push" -> Push(next, Value(cpu, ins.a))
          [] ins.op = "pop" -> Store(Popped(next), ins.a, Top(cpu))
          [] ins.op = "add" -> Store(next, ins.a, Value(cpu, ins.a) + Value(cpu, ins.b))
          [] ins.op = "sub" -> Store(next, ins.a, Value(cpu, ins.a) - Value(cpu, ins.b))
          [] ins.op = "shl" -> Store(next, ins.a, Value(cpu, ins.a) * (2 ^ Value(cpu, ins.b)))
          [] ins.op = "dec" -> Store(next, ins.a, Value(cpu, ins.a) - 1)
          [] ins.op = "inc" -> Store(next, ins.a, Value(cpu, ins.a) + 1)
          [] ins.op = "comment" -> next
          [] ins.op = "xor" /\ ins.a = ins.b -> Store(next, ins.a, 0)
          [] ins.op = "cmp" ->
                [next EXCEPT !.flags = [left |-> Value(cpu, ins.a), right |-> Value(cpu, ins.b)]]
          [] ins.op = "test" /\ ins.a = ins.b ->
                [next EXCEPT !.flags = [left |-> Value(cpu, ins.a), right |-> 0]]
          [] ins.op = "jmp" -> Goto(cpu, text, ins.a)
          [] ins.op \in {"je", "jz"} ->
                IF cpu.flags.left = cpu.flags.right THEN Goto(cpu, text, ins.a) ELSE next
          [] ins.op \in {"jne", "jnz"} ->
                IF cpu.flags.left # cpu.flags.right THEN Goto(cpu, text, ins.a) ELSE next
          [] ins.op = "jg" ->
                IF cpu.flags.left > cpu.flags.right THEN Goto(cpu, text, ins.a) ELSE next
          [] ins.op = "jge" ->
                IF cpu.flags.left >= cpu.flags.right THEN Goto(cpu, text, ins.a) ELSE next
          [] ins.op = "jl" ->
                IF cpu.flags.left < cpu.flags.right THEN Goto(cpu, text, ins.a) ELSE next
          [] ins.op = "jle" ->
                IF cpu.flags.left <= cpu.flags.right THEN Goto(cpu, text, ins.a) ELSE next
          [] ins.op = "call" -> Goto(Push(cpu, cpu.pc + 1), text, ins.a)
          [] ins.op = "FUNC_PROLOGUE" -> FuncPrologue(next, ins.a.n)
          [] ins.op = "FUNC_EPILOGUE" -> FuncEpilogue(cpu)
          [] ins.op = "EXIT" -> [cpu EXCEPT !.status = "halted"]

\* The machine when the generated text starts to run: at _start, or, for a
\* library, called at its first exported function by a caller at address 0
Boot(cpu, G, text) ==
    IF G.shared_lib_mode
    THEN Goto([Push(cpu, 0) EXCEPT !.status = "running"], text, G.exported_functions[1])
    ELSE [cpu EXCEPT !.status = "running", !.pc = 1]

\* ---------------------------------------------------------------- programs
\* The ASTs the analyzer is run on, as the parser builds them.

\* Program::new
NewProgram(statements) ==
    [statements |-> statements, uses_io |-> FALSE, uses_heap |-> FALSE,
     uses_strings |-> FALSE, uses_args |-> FALSE]

\* Print "{name}".
PrintVar(name) == PrintStmt(FormatString(<<FormatVariable(name)>>))

\* The declaring statements: a number / a boolean called "name" is true / a
\* buffer / a file / a timer / the current time / an allocation
DeclKinds == {"number", "flag", "buffer", "file", "timer", "time", "allocate"}

Declare(kind, name) ==
    CASE kind = "number" -> VarDecl(name, Some("Integer"), Some(IntegerLit(1)))
      [] kind = "flag" -> VarDecl(name, Some("Boolean"), Some(BoolLit(TRUE)))
      [] kind = "buffer" -> BufferDecl(name, IntegerLit(10))
      [] kind = "file" -> FileOpen(name, StringLit(s_path), "Reading")
      [] kind = "timer" -> TimerDecl(name)
      [] kind = "time" -> GetTime(name)
      [] kind = "allocate" -> Allocate(name, IntegerLit(8))

\* exit 1
ExitOne == Exit(IntegerLit(1))

\* A condition that has no guard key: 1 is 1
Comparison == BinaryOp(IntegerLit(1), "Equal", IntegerLit(1))

\* If-statement with a then-branch only
IfThen(condition, then_block) == If(condition, then_block, <<>>, None)

\* spec.md, concrete scenario 3
Scenario3 == <<IfThen(StringLit(s_verbose), <<Declare("number", s_level)>>), PrintVar(s_level)>>

\* Straight-line programs of at most MaxStatements top-level statements
MaxStatements == 3

SimpleStatements ==
    {PrintVar(n) : n \in {s_total, s_now, s_end}}
    \cup {Declare("number", n) : n \in {s_total, s_now, s_end}}

StraightLinePrograms == UNION {[1..n -> SimpleStatements] : n \in 1..MaxStatements}

\* Declarations only: every declaring statement, of either of two names
DeclarationPrograms ==
    UNION {[1..n -> {Declare(kind, name) : kind \in DeclKinds, name \in {s_total, s_debug}}] :
              n \in 1..MaxStatements}

\* One if-statement with up to MaxElseIfs else-if branches, then a print
MaxElseIfs == 1

Blocks ==
    {<<Declare("number", s_total)>>,
     <<Declare("buffer", s_total)>>,
     <<Declare("buffer", s_total), ExitOne>>,
     <<ExitOne>>,
     <<Declare("buffer", s_debug), Declare("timer", s_total)>>}

\* The then-branch may also hold a nested if-statement
ThenBlocks ==
    Blocks \cup
    {<<If(StringLit(s_quiet), <<Declare("buffer", s_total)>>, <<>>,
          Some(<<Declare("buffer", s_total), Declare("buffer", s_debug)>>))>>}

ElseIfBlocks ==
    UNION {[1..n -> {<<Comparison, block>> : block \in Blocks}] : n \in 0..MaxElseIfs}

IfPrograms ==
    {<<If(condition, then_block, else_if_blocks, else_block), PrintVar(s_total)>> :
        condition \in {StringLit(s_verbose), Comparison},
        then_block \in ThenBlocks,
        else_if_blocks \in ElseIfBlocks,
        else_block \in {None} \cup {Some(block) : block \in Blocks}}

\* A guarded declaration, then a use under a guard or at top level
Conditions ==
    {Identifier(s_verbose), StringLit(s_verbose), StringLit(s_debug),
     UnaryOp("Not", StringLit(s_verbose)),
     BinaryOp(StringLit(s_verbose), "And", StringLit(s_quiet)),
     BinaryOp(StringLit(s_verbose), "Or", StringLit(s_quiet)),
     Comparison}

GuardedDeclarations ==
    {If(condition, <<Declare(kind, name)>>, <<>>, else_block) :
        condition \in Conditions, kind \in DeclKinds,
        name \in {s_total, s_debug, s_end},
        else_block \in {None, Some(<<ExitOne>>)}}

GuardPrograms ==
    {<<first, IfThen(condition, <<PrintVar(first.then_block[1].name)>>)>> :
        first \in {d \in GuardedDeclarations : d.then_block[1].k # "GetTime"},
        condition \in Conditions}
    \cup {<<first, IfThen(condition, <<PrintVar(first.then_block[1].into)>>)>> :
        first \in {d \in GuardedDeclarations : d.then_block[1].k = "GetTime"},
        condition \in Conditions}
    \cup {<<first, PrintVar(first.then_block[1].name)>> :
        first \in {d \in GuardedDeclarations : d.then_block[1].k # "GetTime"}}
    \cup {<<first, PrintVar(first.then_block[1].into)>> :
        first \in {d \in GuardedDeclarations : d.then_block[1].k = "GetTime"}}

\* A function definition and a top-level use of its local, in both orders
FunctionBodies ==
    {<<Declare(kind, s_temp)>> : kind \in DeclKinds}
    \cup {<<IfThen(StringLit(s_verbose), <<Declare("number", s_temp)>>)>>,
          <<Declare("flag", s_debug), Declare("number", s_temp)>>}

FunctionDefs ==
    {FunctionDef(s_make, params, body) :
        params \in {<<>>, <<<<s_level, "Integer">>>>}, body \in FunctionBodies}

FunctionPrograms ==
    {before \o middle \o after :
        before \in {<<>>, <<Declare("number", s_total)>>,
                    <<IfThen(StringLit(s_verbose), <<Declare("number", s_total)>>)>>},
        middle \in {<<def, use>> : def \in FunctionDefs,
                                   use \in {PrintVar(s_temp),
                                            IfThen(StringLit(s_verbose), <<PrintVar(s_temp)>>)}}
                   \cup {<<use, def>> : def \in FunctionDefs,
                                        use \in {PrintVar(s_temp),
                                                 IfThen(StringLit(s_verbose), <<PrintVar(s_temp)>>)}},
        after \in {<<>>, <<PrintVar(s_level)>>}}

\* A function of n parameters and a call of it with n integer arguments, as
\* a statement or as the value of a declaration
MaxArgs == 8

CallParams(n) == [i \in 1..n |-> <<ParamName(i), "Integer">>]

CallArgs(n) == [i \in 1..n |-> IntegerLit(i)]

CallPrograms ==
    {<<FunctionDef(s_make, CallParams(n), <<>>), FunctionCall(s_make, CallArgs(n))>> :
        n \in 0..MaxArgs}
    \cup {<<FunctionDef(s_make, CallParams(n), <<>>),
            VarDecl(s_total, Some("Integer"), Some(ExprFunctionCall(s_make, CallArgs(n))))>> :
        n \in 0..MaxArgs}

\* A library function that returns the element of its list at its index
ReturnStmt(value) == [k |-> "Return", value |-> value]

AccessPrograms ==
    {<<FunctionDef(s_pick, <<<<s_items, "List">>, <<s_index, "Integer">>>>,
                   <<ReturnStmt(Some(access))>>)>> :
        access \in {ElementAccess(Identifier(s_items), Identifier(s_index)),
                    ListAccess(Identifier(s_items), Identifier(s_index))}}

\* The lists the caller of the library function passes: at either of two
\* addresses, of a length up to MaxLength, the k-th element (from 0) being 100 + k
MaxLength == 3

ListPointers == {WordBytes * 2, WordBytes * 3}

ListAt(pointer, length) ==
    [a \in {pointer + WordBytes * k : k \in 0..(2 + length)} |->
        CASE a = pointer -> length
          [] a = pointer + WordBytes -> length
          [] a = pointer + 2 * WordBytes -> WordBytes
          [] OTHER -> 100 + ((a - pointer - ListHeaderBytes) \div WordBytes)]

\* The index values: around the bounds, and two far outside them
Indices == (-2..(MaxLength + 2)) \cup {-(2 ^ 20), 2 ^ 20}

\* What a cell that was never written may hold
JunkValues == {0, 7}

\* Prints and declarations of names of one and two characters: of ASCII
\* letters, and with a letter outside ASCII
ShortNames == {<<"x">>, <<"i", "x">>, <<e_acute>>, <<"a", e_acute>>}

ShortStatements ==
    {PrintStmt(Identifier(n)) : n \in ShortNames}
    \cup {Declare("number", n) : n \in ShortNames}

ShortPrograms == UNION {[1..n -> ShortStatements] : n \in 1..MaxStatements}

\* Prints of names that are misspelled keywords and of other unknown names,
\* and a call of an unknown function
TypoStatements ==
    {PrintStmt(Identifier(n)) : n \in {s_level, s_prnt, s_whle, s_total, s_debug}}
    \cup {FunctionCall(s_make, <<>>)}

TypoPrograms == UNION {[1..n -> TypoStatements] : n \in 1..MaxStatements}

\* Programs whose statements use the four features: prints of a string and of
\* a variable, an allocation, a file, the parse of the flags, a buffer under a
\* condition, an exit
FeatureStatements ==
    {PrintStmt(StringLit(s_path)), PrintVar(s_total), Declare("allocate", s_total),
     Declare("file", s_now), [k |-> "ParseFlags"],
     IfThen(StringLit(s_verbose), <<Declare("buffer", s_end)>>), ExitOne}

FeaturePrograms == UNION {[1..n -> FeatureStatements] : n \in 1..MaxStatements}

\* ----------------------------------------------------------------- lexer
\* src/src/lexer/mod.rs.  A Token is a record of the name of its variant, t,
\* and its value if it has one; the words of the tables are texts.

\* A Token without a value, by the name of its variant
Tok(t) == [t |-> t]

StringLiteral(s) == [t |-> "StringLiteral", s |-> s]

IdentifierToken(s) == [t |-> "Identifier", s |-> s]

IntegerLiteral(n) == [t |-> "IntegerLiteral", n |-> n]

\* A float is the pair of its digits and the number of them after the point
FloatLiteral(x) == [t |-> "FloatLiteral", x |-> x]

FloatLit(x) == [k |-> "FloatLit", x |-> x]

EOF == Tok("EOF")

\* Token::string_is_keyword: the arms of the match, each the words of the arm
\* and the keyword name it returns
StringKeywords ==
    {
     <<{<<"p", "r", "i", "n", "t">>, <<"s", "a", "y">>, <<"d", "i", "s", "p", "l", "a", "y">>, <<"o", "u", "t", "p", "u", "t">>, <<"s", "h", "o", "w">>},
       <<"p", "r", "i", "n", "t">>>>,
     <<{<<"s", "e", "t">>, <<"a", "s", "s", "i", "g", "n">>, <<"l", "e", "t">>, <<"m", "a", "k", "e">>, <<"p", "u", "t">>},
       <<"s", "e", "t">>>>,
     <<{<<"c", "r", "e", "a", "t", "e">>, <<"d", "e", "c", "l", "a", "r", "e">>, <<"d", "e", "f", "i", "n", "e">>},
       <<"c", "r", "e", "a", "t", "e">>>>,
     <<{<<"a", "d", "d">>, <<"p", "l", "u", "s">>},
       <<"a", "d", "d">>>>,
     <<{<<"s", "u", "b", "t", "r", "a", "c", "t">>, <<"m", "i", "n", "u", "s">>},
       <<"s", "u", "b", "t", "r", "a", "c", "t">>>>,
     <<{<<"m", "u", "l", "t", "i", "p", "l", "y">>, <<"t", "i", "m", "e", "s">>},
       <<"m", "u", "l", "t", "i", "p", "l", "y">>>>,
     <<{<<"d", "i", "v", "i", "d", "e">>, <<"o", "v", "e", "r">>},
       <<"d", "i", "v", "i", "d", "e">>>>,
     <<{<<"i", "n", "c", "r", "e", "m", "e", "n", "t">>, <<"i", "n", "c", "r", "e", "a", "s", "e">>},
       <<"i", "n", "c", "r", "e", "m", "e", "n", "t">>>>,
     <<{<<"d", "e", "c", "r", "e", "m", "e", "n", "t">>, <<"d", "e", "c", "r", "e", "a", "s", "e">>},
       <<"d", "e", "c", "r", "e", "m", "e", "n", "t">>>>,
     <<{<<"c", "a", "l", "l">>, <<"i", "n", "v", "o", "k", "e">>, <<"r", "u", "n">>, <<"e", "x", "e", "c", "u", "t", "e">>},
       <<"c", "a", "l", "l">>>>,
     <<{<<"a", "l", "l", "o", "c", "a", "t", "e">>},
       <<"a", "l", "l", "o", "c", "a", "t", "e">>>>,
     <<{<<"f", "r", "e", "e">>, <<"d", "e", "a", "l", "l", "o", "c", "a", "t", "e">>, <<"r", "e", "l", "e", "a", "s", "e">>},
       <<"f", "r", "e", "e">>>>,
     <<{<<"m", "o", "d", "u", "l", "o">>, <<"m", "o", "d">>, <<"r", "e", "m", "a", "i", "n", "d", "e", "r">>},
       <<"m", "o", "d", "u", "l", "o">>>>,
     <<{<<"i", "f">>},
       <<"i", "f">>>>,
     <<{<<"w", "h", "e", "n">>},
       <<"w", "h", "e", "n">>>>,
     <<{<<"t", "h", "e", "n">>},
       <<"t", "h", "e", "n">>>>,
     <<{<<"e", "l", "s", "e">>},
       <<"e", "l", "s", "e">>>>,
     <<{<<"b", "u", "t">>},
       <<"b", "u", "t">>>>,
     <<{<<"o", "t", "h", "e", "r", "w", "i", "s", "e">>},
       <<"o", "t", "h", "e", "r", "w", "i", "s", "e">>>>,
     <<{<<"w", "h", "i", "l", "e">>},
       <<"w", "h", "i", "l", "e">>>>,
     <<{<<"u", "n", "t", "i", "l">>},
       <<"u", "n", "t", "i", "l">>>>,
     <<{<<"f", "o", "r">>},
       <<"f", "o", "r">>>>,
     <<{<<"e", "a", "c", "h">>},
       <<"e", "a", "c", "h">>>>,
     <<{<<"e", "v", "e", "r", "y">>},
       <<"e", "v", "e", "r", "y">>>>,
     <<{<<"l", "o", "o", "p">>, <<"r", "e", "p", "e", "a", "t">>},
       <<"l", "o", "o", "p">>>>,
     <<{<<"b", "r", "e", "a", "k">>},
       <<"b", "r", "e", "a", "k">>>>,
     <<{<<"s", "t", "o", "p">>},
       <<"s", "t", "o", "p">>>>,
     <<{<<"c", "o", "n", "t", "i", "n", "u", "e">>, <<"s", "k", "i", "p">>},
       <<"c", "o", "n", "t", "i", "n", "u", "e">>>>,
     <<{<<"r", "e", "t", "u", "r", "n">>, <<"g", "i", "v", "e">>, <<"r", "e", "s", "p", "o", "n", "d">>, <<"r", "e", "p", "l", "y">>},
       <<"r", "e", "t", "u", "r", "n">>>>,
     <<{<<"e", "x", "i", "t">>, <<"q", "u", "i", "t">>, <<"t", "e", "r", "m", "i", "n", "a", "t", "e">>, <<"e", "n", "d">>, <<"h", "a", "l", "t">>, <<"a", "b", "o", "r", "t">>},
       <<"e", "x", "i", "t">>>>,
     <<{<<"w", "i", "t", "h">>, <<"u", "s", "i", "n", "g">>, <<"g", "i", "v", "e", "n">>, <<"t", "a", "k", "i", "n", "g">>},
       <<"w", "i", "t", "h">>>>,
     <<{<<"c", "a", "l", "l", "e", "d">>, <<"n", "a", "m", "e", "d">>},
       <<"c", "a", "l", "l", "e", "d">>>>,
     <<{<<"i", "s">>, <<"e", "q", "u", "a", "l", "s">>, <<"e", "q", "u", "a", "l">>, <<"=", "=">>},
       <<"i", "s">>>>,
     <<{<<"a", "r", "e">>},
       <<"a", "r", "e">>>>,
     <<{<<"g", "r", "e", "a", "t", "e", "r">>, <<"m", "o", "r", "e">>, <<"l", "a", "r", "g", "e", "r">>, <<"b", "i", "g", "g", "e", "r">>, <<"h", "i", "g", "h", "e", "r">>, <<"a", "b", "o", "v", "e">>},
       <<"g", "r", "e", "a", "t", "e", "r">>>>,
     <<{<<"l", "e", "s", "s">>, <<"s", "m", "a", "l", "l", "e", "r">>, <<"l", "o", "w", "e", "r">>, <<"b", "e", "l", "o", "w">>, <<"f", "e", "w", "e", "r">>},
       <<"l", "e", "s", "s">>>>,
     <<{<<"t", "h", "a", "n">>},
       <<"t", "h", "a", "n">>>>,
     <<{<<"n", "o", "t">>, <<"!">>},
       <<"n", "o", "t">>>>,
     <<{<<"a", "n", "d">>, <<"&", "&">>},
       <<"a", "n", "d">>>>,
     <<{<<"o", "r">>, <<"|", "|">>},
       <<"o", "r">>>>,
     <<{<<"f", "r", "o", "m">>, <<"s", "t", "a", "r", "t", "i", "n", "g">>},
       <<"f", "r", "o", "m">>>>,
     <<{<<"t", "o">>, <<"u", "p">>},
       <<"t", "o">>>>,
     <<{<<"b", "e", "t", "w", "e", "e", "n">>},
       <<"b", "e", "t", "w", "e", "e", "n">>>>,
     <<{<<"t", "h", "r", "o", "u", "g", "h">>},
       <<"t", "h", "r", "o", "u", "g", "h">>>>,
     <<{<<"i", "n">>, <<"i", "n", "s", "i", "d", "e">>, <<"w", "i", "t", "h", "i", "n">>},
       <<"i", "n">>>>,
     <<{<<"o", "f">>},
       <<"o", "f">>>>,
     <<{<<"o", "n">>, <<"a", "t">>},
       <<"o", "n">>>>,
     <<{<<"t", "h", "e">>},
       <<"t", "h", "e">>>>,
     <<{<<"a">>},
       <<"a">>>>,
     <<{<<"a", "n">>},
       <<"a", "n">>>>,
     <<{<<"a", "l", "l">>},
       <<"a", "l", "l">>>>,
     <<{<<"b", "y">>},
       <<"b", "y">>>>,
     <<{<<"t", "r", "e", "a", "t", "i", "n", "g">>, <<"t", "r", "e", "a", "t">>},
       <<"t", "r", "e", "a", "t", "i", "n", "g">>>>,
     <<{<<"n", "u", "m", "b", "e", "r">>, <<"n", "u", "m", "b", "e", "r", "s">>},
       <<"n", "u", "m", "b", "e", "r">>>>,
     <<{<<"f", "l", "o", "a", "t">>, <<"d", "e", "c", "i", "m", "a", "l">>, <<"r", "e", "a", "l">>},
       <<"f", "l", "o", "a", "t">>>>,
     <<{<<"i", "n", "t">>, <<"i", "n", "t", "e", "g", "e", "r">>},
       <<"i", "n", "t">>>>,
     <<{<<"t", "e", "x", "t">>, <<"s", "t", "r", "i", "n", "g">>, <<"m", "e", "s", "s", "a", "g", "e">>},
       <<"t", "e", "x", "t">>>>,
     <<{<<"b", "o", "o", "l", "e", "a", "n">>, <<"b", "o", "o", "l">>, <<"f", "l", "a", "g">>},
       <<"b", "o", "o", "l", "e", "a", "n">>>>,
     <<{<<"l", "i", "s", "t">>, <<"a", "r", "r", "a", "y">>, <<"c", "o", "l", "l", "e", "c", "t", "i", "o", "n">>},
       <<"l", "i", "s", "t">>>>,
     <<{<<"t", "r", "u", "e">>, <<"y", "e", "s">>},
       <<"t", "r", "u", "e">>>>,
     <<{<<"f", "a", "l", "s", "e">>, <<"n", "o">>},
       <<"f", "a", "l", "s", "e">>>>,
     <<{<<"b", "u", "f", "f", "e", "r">>},
       <<"b", "u", "f", "f", "e", "r">>>>,
     <<{<<"f", "i", "l", "e">>},
       <<"f", "i", "l", "e">>>>,
     <<{<<"b", "y", "t", "e", "s">>},
       <<"b", "y", "t", "e", "s">>>>,
     <<{<<"b", "y", "t", "e">>},
       <<"b", "y", "t", "e">>>>,
     <<{<<"s", "i", "z", "e">>, <<"l", "e", "n", "g", "t", "h">>},
       <<"s", "i", "z", "e">>>>,
     <<{<<"i", "n", "t", "o">>},
       <<"i", "n", "t", "o">>>>,
     <<{<<"r", "e", "a", "d", "i", "n", "g">>},
       <<"r", "e", "a", "d", "i", "n", "g">>>>,
     <<{<<"w", "r", "i", "t", "i", "n", "g">>},
       <<"w", "r", "i", "t", "i", "n", "g">>>>,
     <<{<<"a", "p", "p", "e", "n", "d", "i", "n", "g">>},
       <<"a", "p", "p", "e", "n", "d", "i", "n", "g">>>>,
     <<{<<"s", "t", "a", "n", "d", "a", "r", "d">>},
       <<"s", "t", "a", "n", "d", "a", "r", "d">>>>,
     <<{<<"i", "n", "p", "u", "t">>},
       <<"i", "n", "p", "u", "t">>>>,
     <<{<<"o", "p", "e", "n">>, <<"o", "p", "e", "n", "e", "d">>},
       <<"o", "p", "e", "n">>>>,
     <<{<<"r", "e", "a", "d">>},
       <<"r", "e", "a", "d">>>>,
     <<{<<"w", "r", "i", "t", "e">>},
       <<"w", "r", "i", "t", "e">>>>,
     <<{<<"c", "l", "o", "s", "e">>, <<"c", "l", "o", "s", "e", "d">>},
       <<"c", "l", "o", "s", "e">>>>,
     <<{<<"d", "e", "l", "e", "t", "e">>, <<"r", "e", "m", "o", "v", "e">>},
       <<"d", "e", "l", "e", "t", "e">>>>,
     <<{<<"e", "x", "i", "s", "t", "s">>, <<"e", "x", "i", "s", "t">>},
       <<"e", "x", "i", "s", "t", "s">>>>,
     <<{<<"r", "e", "s", "i", "z", "e">>, <<"r", "e", "a", "l", "l", "o", "c", "a", "t", "e">>, <<"g", "r", "o", "w">>, <<"s", "h", "r", "i", "n", "k">>},
       <<"r", "e", "s", "i", "z", "e">>>>,
     <<{<<"e", "v", "e", "n">>},
       <<"e", "v", "e", "n">>>>,
     <<{<<"o", "d", "d">>},
       <<"o", "d", "d">>>>,
     <<{<<"p", "o", "s", "i", "t", "i", "v", "e">>},
       <<"p", "o", "s", "i", "t", "i", "v", "e">>>>,
     <<{<<"n", "e", "g", "a", "t", "i", "v", "e">>},
       <<"n", "e", "g", "a", "t", "i", "v", "e">>>>,
     <<{<<"z", "e", "r", "o">>},
       <<"z", "e", "r", "o">>>>,
     <<{<<"e", "m", "p", "t", "y">>, <<"n", "o", "t", "h", "i", "n", "g">>, <<"n", "u", "l", "l">>, <<"n", "i", "l">>},
       <<"e", "m", "p", "t", "y">>>>,
     <<{<<"c", "a", "p", "a", "c", "i", "t", "y">>},
       <<"c", "a", "p", "a", "c", "i", "t", "y">>>>,
     <<{<<"d", "e", "s", "c", "r", "i", "p", "t", "o", "r">>, <<"f", "d">>},
       <<"d", "e", "s", "c", "r", "i", "p", "t", "o", "r">>>>,
     <<{<<"m", "o", "d", "i", "f", "i", "e", "d">>},
       <<"m", "o", "d", "i", "f", "i", "e", "d">>>>,
     <<{<<"a", "c", "c", "e", "s", "s", "e", "d">>},
       <<"a", "c", "c", "e", "s", "s", "e", "d">>>>,
     <<{<<"p", "e", "r", "m", "i", "s", "s", "i", "o", "n", "s">>, <<"p", "e", "r", "m", "s">>},
       <<"p", "e", "r", "m", "i", "s", "s", "i", "o", "n", "s">>>>,
     <<{<<"r", "e", "a", "d", "a", "b", "l", "e">>},
       <<"r", "e", "a", "d", "a", "b", "l", "e">>>>,
     <<{<<"w", "r", "i", "t", "a", "b", "l", "e">>},
       <<"w", "r", "i", "t", "a", "b", "l", "e">>>>,
     <<{<<"f", "u", "l", "l">>},
       <<"f", "u", "l", "l">>>>,
     <<{<<"f", "i", "r", "s", "t">>},
       <<"f", "i", "r", "s", "t">>>>,
     <<{<<"l", "a", "s", "t">>},
       <<"l", "a", "s", "t">>>>,
     <<{<<"a", "b", "s", "o", "l", "u", "t", "e">>, <<"a", "b", "s">>},
       <<"a", "b", "s", "o", "l", "u", "t", "e">>>>,
     <<{<<"s", "i", "g", "n">>},
       <<"s", "i", "g", "n">>>>,
     <<{<<"e", "r", "r", "o", "r">>},
       <<"e", "r", "r", "o", "r">>>>,
     <<{<<"s", "t", "d", "e", "r", "r">>},
       <<"s", "t", "d", "e", "r", "r">>>>,
     <<{<<"a", "u", "t", "o">>, <<"a", "u", "t", "o", "m", "a", "t", "i", "c">>},
       <<"a", "u", "t", "o">>>>,
     <<{<<"c", "a", "t", "c", "h", "i", "n", "g">>},
       <<"c", "a", "t", "c", "h", "i", "n", "g">>>>,
     <<{<<"e", "n", "a", "b", "l", "e">>, <<"e", "n", "a", "b", "l", "e", "d">>},
       <<"e", "n", "a", "b", "l", "e">>>>,
     <<{<<"d", "i", "s", "a", "b", "l", "e">>, <<"d", "i", "s", "a", "b", "l", "e", "d">>},
       <<"d", "i", "s", "a", "b", "l", "e">>>>,
     <<{<<"s", "e", "e">>, <<"i", "m", "p", "o", "r", "t">>, <<"i", "n", "c", "l", "u", "d", "e">>, <<"r", "e", "q", "u", "i", "r", "e">>},
       <<"s", "e", "e">>>>,
     <<{<<"l", "i", "b", "r", "a", "r", "y">>, <<"l", "i", "b">>},
       <<"l", "i", "b", "r", "a", "r", "y">>>>,
     <<{<<"v", "e", "r", "s", "i", "o", "n">>, <<"v", "e", "r">>},
       <<"v", "e", "r", "s", "i", "o", "n">>>>,
     <<{<<"a", "r", "g", "u", "m", "e", "n", "t">>, <<"a", "r", "g">>, <<"p", "a", "r", "a", "m">>, <<"p", "a", "r", "a", "m", "e", "t", "e", "r">>},
       <<"a", "r", "g", "u", "m", "e", "n", "t">>>>,
     <<{<<"a", "r", "g", "u", "m", "e", "n", "t", "s">>, <<"a", "r", "g", "s">>, <<"p", "a", "r", "a", "m", "s">>, <<"p", "a", "r", "a", "m", "e", "t", "e", "r", "s">>},
       <<"a", "r", "g", "u", "m", "e", "n", "t", "s">>>>,
     <<{<<"e", "n", "v", "i", "r", "o", "n", "m", "e", "n", "t">>, <<"e", "n", "v">>},
       <<"e", "n", "v", "i", "r", "o", "n", "m", "e", "n", "t">>>>,
     <<{<<"v", "a", "r", "i", "a", "b", "l", "e">>, <<"v", "a", "r">>},
       <<"v", "a", "r", "i", "a", "b", "l", "e">>>>,
     <<{<<"c", "o", "u", "n", "t">>},
       <<"c", "o", "u", "n", "t">>>>,
     <<{<<"w", "a", "i", "t">>, <<"p", "a", "u", "s", "e">>},
       <<"w", "a", "i", "t">>>>,
     <<{<<"s", "l", "e", "e", "p">>, <<"d", "e", "l", "a", "y">>},
       <<"s", "l", "e", "e", "p">>>>,
     <<{<<"t", "i", "m", "e", "r">>, <<"s", "t", "o", "p", "w", "a", "t", "c", "h">>},
       <<"t", "i", "m", "e", "r">>>>,
     <<{<<"b", "e", "g", "i", "n">>},
       <<"b", "e", "g", "i", "n">>>>,
     <<{<<"f", "i", "n", "i", "s", "h">>},
       <<"s", "t", "o", "p">>>>,
     <<{<<"g", "e", "t">>, <<"f", "e", "t", "c", "h">>, <<"r", "e", "t", "r", "i", "e", "v", "e">>},
       <<"g", "e", "t">>>>,
     <<{<<"c", "u", "r", "r", "e", "n", "t">>},
       <<"c", "u", "r", "r", "e", "n", "t">>>>,
     <<{<<"t", "i", "m", "e">>},
       <<"t", "i", "m", "e">>>>,
     <<{<<"s", "e", "c", "o", "n", "d">>},
       <<"s", "e", "c", "o", "n", "d">>>>,
     <<{<<"s", "e", "c", "o", "n", "d", "s">>},
       <<"s", "e", "c", "o", "n", "d", "s">>>>,
     <<{<<"m", "i", "l", "l", "i", "s", "e", "c", "o", "n", "d">>},
       <<"m", "i", "l", "l", "i", "s", "e", "c", "o", "n", "d">>>>,
     <<{<<"m", "i", "l", "l", "i", "s", "e", "c", "o", "n", "d", "s">>, <<"m", "s">>},
       <<"m", "i", "l", "l", "i", "s", "e", "c", "o", "n", "d", "s">>>>,
     <<{<<"d", "u", "r", "a", "t", "i", "o", "n">>},
       <<"d", "u", "r", "a", "t", "i", "o", "n">>>>,
     <<{<<"e", "l", "a", "p", "s", "e", "d">>},
       <<"e", "l", "a", "p", "s", "e", "d">>>>,
     <<{<<"h", "o", "u", "r">>, <<"h", "o", "u", "r", "s">>},
       <<"h", "o", "u", "r">>>>,
     <<{<<"m", "i", "n", "u", "t", "e">>, <<"m", "i", "n", "u", "t", "e", "s">>},
       <<"m", "i", "n", "u", "t", "e">>>>,
     <<{<<"d", "a", "y">>, <<"d", "a", "y", "s">>},
       <<"d", "a", "y">>>>,
     <<{<<"m", "o", "n", "t", "h">>, <<"m", "o", "n", "t", "h", "s">>},
       <<"m", "o", "n", "t", "h">>>>,
     <<{<<"y", "e", "a", "r">>, <<"y", "e", "a", "r", "s">>},
       <<"y", "e", "a", "r">>>>,
     <<{<<"u", "n", "i", "x">>, <<"u", "n", "i", "x", "t", "i", "m", "e">>, <<"t", "i", "m", "e", "s", "t", "a", "m", "p">>},
       <<"u", "n", "i", "x">>>>,
     <<{<<"r", "u", "n", "n", "i", "n", "g">>},
       <<"r", "u", "n", "n", "i", "n", "g">>>>,
     <<{<<"a", "s">>},
       <<"a", "s">>>>
    }

\* Token::as_keyword: the keyword name of each token that has one
TokenKeywords ==
    {
     <<"Print", <<"p", "r", "i", "n", "t">>>>,
     <<"Set", <<"s", "e", "t">>>>,
     <<"Create", <<"c", "r", "e", "a", "t", "e">>>>,
     <<"Add", <<"a", "d", "d">>>>,
     <<"Subtract", <<"s", "u", "b", "t", "r", "a", "c", "t">>>>,
     <<"Multiply", <<"m", "u", "l", "t", "i", "p", "l", "y">>>>,
     <<"Divide", <<"d", "i", "v", "i", "d", "e">>>>,
     <<"Increment", <<"i", "n", "c", "r", "e", "m", "e", "n", "t">>>>,
     <<"Decrement", <<"d", "e", "c", "r", "e", "m", "e", "n", "t">>>>,
     <<"Call", <<"c", "a", "l", "l">>>>,
     <<"Allocate", <<"a", "l", "l", "o", "c", "a", "t", "e">>>>,
     <<"Free", <<"f", "r", "e", "e">>>>,
     <<"Open", <<"o", "p", "e", "n">>>>,
     <<"Read", <<"r", "e", "a", "d">>>>,
     <<"Write", <<"w", "r", "i", "t", "e">>>>,
     <<"Close", <<"c", "l", "o", "s", "e">>>>,
     <<"Delete", <<"d", "e", "l", "e", "t", "e">>>>,
     <<"Exists", <<"e", "x", "i", "s", "t", "s">>>>,
     <<"Resize", <<"r", "e", "s", "i", "z", "e">>>>,
     <<"If", <<"i", "f">>>>,
     <<"When", <<"w", "h", "e", "n">>>>,
     <<"Then", <<"t", "h", "e", "n">>>>,
     <<"Else", <<"e", "l", "s", "e">>>>,
     <<"But", <<"b", "u", "t">>>>,
     <<"Otherwise", <<"o", "t", "h", "e", "r", "w", "i", "s", "e">>>>,
     <<"While", <<"w", "h", "i", "l", "e">>>>,
     <<"Until", <<"u", "n", "t", "i", "l">>>>,
     <<"For", <<"f", "o", "r">>>>,
     <<"Each", <<"e", "a", "c", "h">>>>,
     <<"Every", <<"e", "v", "e", "r", "y">>>>,
     <<"Loop", <<"l", "o", "o", "p">>>>,
     <<"Repeat", <<"r", "e", "p", "e", "a", "t">>>>,
     <<"Times", <<"t", "i", "m", "e", "s">>>>,
     <<"Break", <<"b", "r", "e", "a", "k">>>>,
     <<"Continue", <<"c", "o", "n", "t", "i", "n", "u", "e">>>>,
     <<"Return", <<"r", "e", "t", "u", "r", "n">>>>,
     <<"Exit", <<"e", "x", "i", "t">>>>,
     <<"With", <<"w", "i", "t", "h">>>>,
     <<"Called", <<"c", "a", "l", "l", "e", "d">>>>,
     <<"Modulo", <<"m", "o", "d", "u", "l", "o">>>>,
     <<"Is", <<"i", "s">>>>,
     <<"Are", <<"a", "r", "e">>>>,
     <<"Equals", <<"e", "q", "u", "a", "l", "s">>>>,
     <<"Equal", <<"e", "q", "u", "a", "l">>>>,
     <<"Greater", <<"g", "r", "e", "a", "t", "e", "r">>>>,
     <<"Less", <<"l", "e", "s", "s">>>>,
     <<"Than", <<"t", "h", "a", "n">>>>,
     <<"Not", <<"n", "o", "t">>>>,
     <<"And", <<"a", "n", "d">>>>,
     <<"Or", <<"o", "r">>>>,
     <<"From", <<"f", "r", "o", "m">>>>,
     <<"To", <<"t", "o">>>>,
     <<"Between", <<"b", "e", "t", "w", "e", "e", "n">>>>,
     <<"Through", <<"t", "h", "r", "o", "u", "g", "h">>>>,
     <<"In", <<"i", "n">>>>,
     <<"Of", <<"o", "f">>>>,
     <<"On", <<"o", "n">>>>,
     <<"The", <<"t", "h", "e">>>>,
     <<"A", <<"a">>>>,
     <<"An", <<"a", "n">>>>,
     <<"All", <<"a", "l", "l">>>>,
     <<"By", <<"b", "y">>>>,
     <<"Treating", <<"t", "r", "e", "a", "t", "i", "n", "g">>>>,
     <<"Number", <<"n", "u", "m", "b", "e", "r">>>>,
     <<"Float", <<"f", "l", "o", "a", "t">>>>,
     <<"Int", <<"i", "n", "t">>>>,
     <<"Text", <<"t", "e", "x", "t">>>>,
     <<"Boolean", <<"b", "o", "o", "l", "e", "a", "n">>>>,
     <<"List", <<"l", "i", "s", "t">>>>,
     <<"True", <<"t", "r", "u", "e">>>>,
     <<"False", <<"f", "a", "l", "s", "e">>>>,
     <<"Buffer", <<"b", "u", "f", "f", "e", "r">>>>,
     <<"File", <<"f", "i", "l", "e">>>>,
     <<"Bytes", <<"b", "y", "t", "e", "s">>>>,
     <<"Size", <<"s", "i", "z", "e">>>>,
     <<"Into", <<"i", "n", "t", "o">>>>,
     <<"Reading", <<"r", "e", "a", "d", "i", "n", "g">>>>,
     <<"Writing", <<"w", "r", "i", "t", "i", "n", "g">>>>,
     <<"Appending", <<"a", "p", "p", "e", "n", "d", "i", "n", "g">>>>,
     <<"Standard", <<"s", "t", "a", "n", "d", "a", "r", "d">>>>,
     <<"Input", <<"i", "n", "p", "u", "t">>>>,
     <<"Even", <<"e", "v", "e", "n">>>>,
     <<"Odd", <<"o", "d", "d">>>>,
     <<"Positive", <<"p", "o", "s", "i", "t", "i", "v", "e">>>>,
     <<"Negative", <<"n", "e", "g", "a", "t", "i", "v", "e">>>>,
     <<"Zero", <<"z", "e", "r", "o">>>>,
     <<"Empty", <<"e", "m", "p", "t", "y">>>>,
     <<"Capacity", <<"c", "a", "p", "a", "c", "i", "t", "y">>>>,
     <<"Descriptor", <<"d", "e", "s", "c", "r", "i", "p", "t", "o", "r">>>>,
     <<"Modified", <<"m", "o", "d", "i", "f", "i", "e", "d">>>>,
     <<"Accessed", <<"a", "c", "c", "e", "s", "s", "e", "d">>>>,
     <<"Permissions", <<"p", "e", "r", "m", "i", "s", "s", "i", "o", "n", "s">>>>,
     <<"Readable", <<"r", "e", "a", "d", "a", "b", "l", "e">>>>,
     <<"Writable", <<"w", "r", "i", "t", "a", "b", "l", "e">>>>,
     <<"Full", <<"f", "u", "l", "l">>>>,
     <<"First", <<"f", "i", "r", "s", "t">>>>,
     <<"Last", <<"l", "a", "s", "t">>>>,
     <<"Absolute", <<"a", "b", "s", "o", "l", "u", "t", "e">>>>,
     <<"Sign", <<"s", "i", "g", "n">>>>,
     <<"Error", <<"e", "r", "r", "o", "r">>>>,
     <<"Stderr", <<"s", "t", "d", "e", "r", "r">>>>,
     <<"Auto", <<"a", "u", "t", "o">>>>,
     <<"Catching", <<"c", "a", "t", "c", "h", "i", "n", "g">>>>,
     <<"Enable", <<"e", "n", "a", "b", "l", "e">>>>,
     <<"Disable", <<"d", "i", "s", "a", "b", "l", "e">>>>,
     <<"See", <<"s", "e", "e">>>>,
     <<"Library", <<"l", "i", "b", "r", "a", "r", "y">>>>,
     <<"Version", <<"v", "e", "r", "s", "i", "o", "n">>>>,
     <<"Argument", <<"a", "r", "g", "u", "m", "e", "n", "t">>>>,
     <<"Arguments", <<"a", "r", "g", "u", "m", "e", "n", "t", "s">>>>,
     <<"Environment", <<"e", "n", "v", "i", "r", "o", "n", "m", "e", "n", "t">>>>,
     <<"Variable", <<"v", "a", "r", "i", "a", "b", "l", "e">>>>,
     <<"Count", <<"c", "o", "u", "n", "t">>>>,
     <<"Wait", <<"w", "a", "i", "t">>>>,
     <<"Sleep", <<"s", "l", "e", "e", "p">>>>,
     <<"Timer", <<"t", "i", "m", "e", "r">>>>,
     <<"Stop", <<"s", "t", "o", "p">>>>,
     <<"Begin", <<"b", "e", "g", "i", "n">>>>,
     <<"Finish", <<"f", "i", "n", "i", "s", "h">>>>,
     <<"Get", <<"g", "e", "t">>>>,
     <<"Current", <<"c", "u", "r", "r", "e", "n", "t">>>>,
     <<"Time", <<"t", "i", "m", "e">>>>,
     <<"Second", <<"s", "e", "c", "o", "n", "d">>>>,
     <<"Seconds", <<"s", "e", "c", "o", "n", "d", "s">>>>,
     <<"Millisecond", <<"m", "i", "l", "l", "i", "s", "e", "c", "o", "n", "d">>>>,
     <<"Milliseconds", <<"m", "i", "l", "l", "i", "s", "e", "c", "o", "n", "d", "s">>>>,
     <<"Duration", <<"d", "u", "r", "a", "t", "i", "o", "n">>>>,
     <<"Elapsed", <<"e", "l", "a", "p", "s", "e", "d">>>>,
     <<"Hour", <<"h", "o", "u", "r">>>>,
     <<"Minute", <<"m", "i", "n", "u", "t", "e">>>>,
     <<"Day", <<"d", "a", "y">>>>,
     <<"Month", <<"m", "o", "n", "t", "h">>>>,
     <<"Year", <<"y", "e", "a", "r">>>>,
     <<"Unix", <<"u", "n", "i", "x">>>>,
     <<"Running", <<"r", "u", "n", "n", "i", "n", "g">>>>,
     <<"As", <<"a", "s">>>>,
     <<"BitAnd", <<"b", "i", "t", "-", "a", "n", "d">>>>,
     <<"BitOr", <<"b", "i", "t", "-", "o", "r">>>>,
     <<"BitXor", <<"b", "i", "t", "-", "x", "o", "r">>>>,
     <<"BitNot", <<"b", "i", "t", "-", "n", "o", "t">>>>,
     <<"BitShiftLeft", <<"b", "i", "t", "-", "s", "h", "i", "f", "t", "-", "l", "e", "f", "t">>>>,
     <<"BitShiftRight", <<"b", "i", "t", "-", "s", "h", "i", "f", "t", "-", "r", "i", "g", "h", "t">>>>,
     <<"Byte", <<"b", "y", "t", "e">>>>,
     <<"Element", <<"e", "l", "e", "m", "e", "n", "t">>>>,
     <<"Without", <<"w", "i", "t", "h", "o", "u", "t">>>>
    }

\* read_word: the arms of the match on the lowercased word, each the words of
\* the arm and the token it gives; the arms for it and start give identifiers
WordTokens ==
    {
     <<{<<"p", "r", "i", "n", "t">>, <<"p", "r", "i", "n", "t", "s">>, <<"d", "i", "s", "p", "l", "a", "y">>, <<"s", "h", "o", "w">>},
       "Print">>,
     <<{<<"s", "e", "t">>, <<"s", "t", "o", "r", "e">>, <<"a", "s", "s", "i", "g", "n">>},
       "Set">>,
     <<{<<"c", "r", "e", "a", "t", "e">>, <<"m", "a", "k", "e">>, <<"d", "e", "f", "i", "n", "e">>},
       "Create">>,
     <<{<<"a", "d", "d">>, <<"p", "l", "u", "s">>},
       "Add">>,
     <<{<<"s", "u", "b", "t", "r", "a", "c", "t">>, <<"m", "i", "n", "u", "s">>},
       "Subtract">>,
     <<{<<"m", "u", "l", "t", "i", "p", "l", "y">>},
       "Multiply">>,
     <<{<<"d", "i", "v", "i", "d", "e">>},
       "Divide">>,
     <<{<<"i", "n", "c", "r", "e", "m", "e", "n", "t">>},
       "Increment">>,
     <<{<<"d", "e", "c", "r", "e", "m", "e", "n", "t">>},
       "Decrement">>,
     <<{<<"c", "a", "l", "l">>, <<"i", "n", "v", "o", "k", "e">>, <<"r", "u", "n">>},
       "Call">>,
     <<{<<"a", "l", "l", "o", "c", "a", "t", "e">>},
       "Allocate">>,
     <<{<<"f", "r", "e", "e">>, <<"r", "e", "l", "e", "a", "s", "e">>, <<"d", "e", "a", "l", "l", "o", "c", "a", "t", "e">>},
       "Free">>,
     <<{<<"i", "f">>},
       "If">>,
     <<{<<"w", "h", "e", "n">>},
       "When">>,
     <<{<<"t", "h", "e", "n">>},
       "Then">>,
     <<{<<"e", "l", "s", "e">>},
       "Else">>,
     <<{<<"b", "u", "t">>},
       "But">>,
     <<{<<"o", "t", "h", "e", "r", "w", "i", "s", "e">>},
       "Otherwise">>,
     <<{<<"w", "h", "i", "l", "e">>},
       "While">>,
     <<{<<"u", "n", "t", "i", "l">>},
       "Until">>,
     <<{<<"f", "o", "r">>},
       "For">>,
     <<{<<"e", "a", "c", "h">>},
       "Each">>,
     <<{<<"e", "v", "e", "r", "y">>},
       "Every">>,
     <<{<<"l", "o", "o", "p">>},
       "Loop">>,
     <<{<<"r", "e", "p", "e", "a", "t">>},
       "Repeat">>,
     <<{<<"t", "i", "m", "e", "s">>},
       "Times">>,
     <<{<<"b", "r", "e", "a", "k">>},
       "Break">>,
     <<{<<"s", "t", "o", "p">>},
       "Stop">>,
     <<{<<"e", "x", "i", "t">>, <<"q", "u", "i", "t">>, <<"t", "e", "r", "m", "i", "n", "a", "t", "e">>},
       "Exit">>,
     <<{<<"c", "o", "n", "t", "i", "n", "u", "e">>, <<"s", "k", "i", "p">>},
       "Continue">>,
     <<{<<"r", "e", "t", "u", "r", "n">>, <<"r", "e", "t", "u", "r", "n", "s">>, <<"g", "i", "v", "e">>},
       "Return">>,
     <<{<<"t", "o">>},
       "To">>,
     <<{<<"w", "i", "t", "h">>},
       "With">>,
     <<{<<"c", "a", "l", "l", "e", "d">>, <<"n", "a", "m", "e", "d">>},
       "Called">>,
     <<{<<"m", "o", "d", "u", "l", "o">>, <<"m", "o", "d">>, <<"r", "e", "m", "a", "i", "n", "d", "e", "r">>},
       "Modulo">>,
     <<{<<"i", "s">>, <<"i", "t", "'", "s">>},
       "Is">>,
     <<{<<"a", "r", "e">>, <<"t", "h", "e", "y", "'", "r", "e">>},
       "Are">>,
     <<{<<"e", "q", "u", "a", "l", "s">>, <<"e", "q", "u", "a", "l">>},
       "Equals">>,
     <<{<<"g", "r", "e", "a", "t", "e", "r">>, <<"m", "o", "r", "e">>, <<"b", "i", "g", "g", "e", "r">>, <<"l", "a", "r", "g", "e", "r">>},
       "Greater">>,
     <<{<<"l", "e", "s", "s">>, <<"f", "e", "w", "e", "r">>, <<"s", "m", "a", "l", "l", "e", "r">>},
       "Less">>,
     <<{<<"t", "h", "a", "n">>},
       "Than">>,
     <<{<<"n", "o", "t">>, <<"i", "s", "n", "'", "t">>, <<"a", "r", "e", "n", "'", "t">>, <<"d", "o", "e", "s", "n", "'", "t">>, <<"d", "o", "n", "'", "t">>},
       "Not">>,
     <<{<<"a", "n", "d">>},
       "And">>,
     <<{<<"o", "r">>},
       "Or">>,
     <<{<<"f", "r", "o", "m">>, <<"s", "t", "a", "r", "t", "i", "n", "g">>},
       "From">>,
     <<{<<"u", "p">>},
       "To">>,
     <<{<<"b", "e", "t", "w", "e", "e", "n">>},
       "Between">>,
     <<{<<"t", "h", "r", "o", "u", "g", "h">>},
       "Through">>,
     <<{<<"i", "n">>, <<"i", "n", "s", "i", "d", "e">>, <<"w", "i", "t", "h", "i", "n">>},
       "In">>,
     <<{<<"o", "f">>},
       "Of">>,
     <<{<<"o", "n">>, <<"a", "t">>},
       "On">>,
     <<{<<"t", "h", "e">>},
       "The">>,
     <<{<<"a">>},
       "A">>,
     <<{<<"a", "n">>},
       "An">>,
     <<{<<"a", "l", "l">>},
       "All">>,
     <<{<<"b", "y">>},
       "By">>,
     <<{<<"n", "u", "m", "b", "e", "r">>, <<"n", "u", "m", "b", "e", "r", "s">>},
       "Number">>,
     <<{<<"f", "l", "o", "a", "t">>, <<"d", "e", "c", "i", "m", "a", "l">>, <<"r", "e", "a", "l">>},
       "Float">>,
     <<{<<"i", "n", "t">>, <<"i", "n", "t", "e", "g", "e", "r">>},
       "Int">>,
     <<{<<"t", "e", "x", "t">>, <<"s", "t", "r", "i", "n", "g">>, <<"m", "e", "s", "s", "a", "g", "e">>},
       "Text">>,
     <<{<<"b", "o", "o", "l", "e", "a", "n">>, <<"b", "o", "o", "l">>, <<"f", "l", "a", "g">>},
       "Boolean">>,
     <<{<<"l", "i", "s", "t">>, <<"a", "r", "r", "a", "y">>, <<"c", "o", "l", "l", "e", "c", "t", "i", "o", "n">>},
       "List">>,
     <<{<<"t", "r", "u", "e">>, <<"y", "e", "s">>},
       "True">>,
     <<{<<"f", "a", "l", "s", "e">>, <<"n", "o">>},
       "False">>,
     <<{<<"e", "v", "e", "n">>},
       "Even">>,
     <<{<<"o", "d", "d">>},
       "Odd">>,
     <<{<<"p", "o", "s", "i", "t", "i", "v", "e">>},
       "Positive">>,
     <<{<<"n", "e", "g", "a", "t", "i", "v", "e">>},
       "Negative">>,
     <<{<<"z", "e", "r", "o">>},
       "Zero">>,
     <<{<<"e", "m", "p", "t", "y">>, <<"n", "o", "t", "h", "i", "n", "g">>, <<"n", "u", "l", "l">>, <<"n", "i", "l">>},
       "Empty">>,
     <<{<<"o", "p", "e", "n">>, <<"o", "p", "e", "n", "e", "d">>},
       "Open">>,
     <<{<<"r", "e", "a", "d">>},
       "Read">>,
     <<{<<"w", "r", "i", "t", "e">>},
       "Write">>,
     <<{<<"c", "l", "o", "s", "e">>, <<"c", "l", "o", "s", "e", "d">>},
       "Close">>,
     <<{<<"d", "e", "l", "e", "t", "e">>, <<"r", "e", "m", "o", "v", "e">>},
       "Delete">>,
     <<{<<"e", "x", "i", "s", "t", "s">>, <<"e", "x", "i", "s", "t">>},
       "Exists">>,
     <<{<<"r", "e", "s", "i", "z", "e">>, <<"r", "e", "a", "l", "l", "o", "c", "a", "t", "e">>, <<"g", "r", "o", "w">>, <<"s", "h", "r", "i", "n", "k">>},
       "Resize">>,
     <<{<<"b", "u", "f", "f", "e", "r">>},
       "Buffer">>,
     <<{<<"f", "i", "l", "e">>},
       "File">>,
     <<{<<"b", "y", "t", "e", "s">>},
       "Bytes">>,
     <<{<<"s", "i", "z", "e">>, <<"l", "e", "n", "g", "t", "h">>},
       "Size">>,
     <<{<<"c", "a", "p", "a", "c", "i", "t", "y">>},
       "Capacity">>,
     <<{<<"i", "n", "t", "o">>},
       "Into">>,
     <<{<<"r", "e", "a", "d", "i", "n", "g">>},
       "Reading">>,
     <<{<<"w", "r", "i", "t", "i", "n", "g">>},
       "Writing">>,
     <<{<<"a", "p", "p", "e", "n", "d", "i", "n", "g">>},
       "Appending">>,
     <<{<<"s", "t", "a", "n", "d", "a", "r", "d">>},
       "Standard">>,
     <<{<<"i", "n", "p", "u", "t">>},
       "Input">>,
     <<{<<"e", "r", "r", "o", "r">>},
       "Error">>,
     <<{<<"s", "t", "d", "e", "r", "r">>},
       "Stderr">>,
     <<{<<"a", "u", "t", "o">>, <<"a", "u", "t", "o", "m", "a", "t", "i", "c">>},
       "Auto">>,
     <<{<<"c", "a", "t", "c", "h", "i", "n", "g">>},
       "Catching">>,
     <<{<<"e", "n", "a", "b", "l", "e">>, <<"e", "n", "a", "b", "l", "e", "d">>},
       "Enable">>,
     <<{<<"d", "i", "s", "a", "b", "l", "e">>, <<"d", "i", "s", "a", "b", "l", "e", "d">>},
       "Disable">>,
     <<{<<"d", "e", "s", "c", "r", "i", "p", "t", "o", "r">>, <<"f", "d">>},
       "Descriptor">>,
     <<{<<"m", "o", "d", "i", "f", "i", "e", "d">>},
       "Modified">>,
     <<{<<"a", "c", "c", "e", "s", "s", "e", "d">>},
       "Accessed">>,
     <<{<<"p", "e", "r", "m", "i", "s", "s", "i", "o", "n", "s">>, <<"p", "e", "r", "m", "s">>},
       "Permissions">>,
     <<{<<"r", "e", "a", "d", "a", "b", "l", "e">>},
       "Readable">>,
     <<{<<"w", "r", "i", "t", "a", "b", "l", "e">>},
       "Writable">>,
     <<{<<"f", "u", "l", "l">>},
       "Full">>,
     <<{<<"f", "i", "r", "s", "t">>},
       "First">>,
     <<{<<"l", "a", "s", "t">>},
       "Last">>,
     <<{<<"a", "b", "s", "o", "l", "u", "t", "e">>, <<"a", "b", "s">>},
       "Absolute">>,
     <<{<<"s", "i", "g", "n">>},
       "Sign">>,
     <<{<<"s", "e", "e">>, <<"i", "m", "p", "o", "r", "t">>, <<"i", "n", "c", "l", "u", "d", "e">>, <<"r", "e", "q", "u", "i", "r", "e">>},
       "See">>,
     <<{<<"l", "i", "b", "r", "a", "r", "y">>, <<"l", "i", "b">>},
       "Library">>,
     <<{<<"v", "e", "r", "s", "i", "o", "n">>, <<"v", "e", "r">>},
       "Version">>,
     <<{<<"a", "r", "g", "u", "m", "e", "n", "t">>, <<"a", "r", "g">>, <<"p", "a", "r", "a", "m">>, <<"p", "a", "r", "a", "m", "e", "t", "e", "r">>},
       "Argument">>,
     <<{<<"a", "r", "g", "u", "m", "e", "n", "t", "s">>, <<"a", "r", "g", "s">>, <<"p", "a", "r", "a", "m", "s">>, <<"p", "a", "r", "a", "m", "e", "t", "e", "r", "s">>},
       "Arguments">>,
     <<{<<"e", "n", "v", "i", "r", "o", "n", "m", "e", "n", "t">>, <<"e", "n", "v">>},
       "Environment">>,
     <<{<<"v", "a", "r", "i", "a", "b", "l", "e">>, <<"v", "a", "r">>},
       "Variable">>,
     <<{<<"c", "o", "u", "n", "t">>},
       "Count">>,
     <<{<<"t", "r", "e", "a", "t", "i", "n", "g">>, <<"t", "r", "e", "a", "t">>},
       "Treating">>,
     <<{<<"w", "a", "i", "t">>, <<"p", "a", "u", "s", "e">>},
       "Wait">>,
     <<{<<"s", "l", "e", "e", "p">>, <<"d", "e", "l", "a", "y">>},
       "Sleep">>,
     <<{<<"t", "i", "m", "e", "r">>, <<"s", "t", "o", "p", "w", "a", "t", "c", "h">>},
       "Timer">>,
     <<{<<"b", "e", "g", "i", "n">>},
       "Begin">>,
     <<{<<"f", "i", "n", "i", "s", "h">>},
       "Finish">>,
     <<{<<"g", "e", "t">>, <<"f", "e", "t", "c", "h">>, <<"r", "e", "t", "r", "i", "e", "v", "e">>},
       "Get">>,
     <<{<<"c", "u", "r", "r", "e", "n", "t">>},
       "Current">>,
     <<{<<"t", "i", "m", "e">>},
       "Time">>,
     <<{<<"s", "e", "c", "o", "n", "d">>},
       "Second">>,
     <<{<<"s", "e", "c", "o", "n", "d", "s">>},
       "Seconds">>,
     <<{<<"m", "i", "l", "l", "i", "s", "e", "c", "o", "n", "d">>},
       "Millisecond">>,
     <<{<<"m", "i", "l", "l", "i", "s", "e", "c", "o", "n", "d", "s">>, <<"m", "s">>},
       "Milliseconds">>,
     <<{<<"d", "u", "r", "a", "t", "i", "o", "n">>},
       "Duration">>,
     <<{<<"e", "l", "a", "p", "s", "e", "d">>},
       "Elapsed">>,
     <<{<<"h", "o", "u", "r">>, <<"h", "o", "u", "r", "s">>},
       "Hour">>,
     <<{<<"m", "i", "n", "u", "t", "e">>, <<"m", "i", "n", "u", "t", "e", "s">>},
       "Minute">>,
     <<{<<"d", "a", "y">>, <<"d", "a", "y", "s">>},
       "Day">>,
     <<{<<"m", "o", "n", "t", "h">>, <<"m", "o", "n", "t", "h", "s">>},
       "Month">>,
     <<{<<"y", "e", "a", "r">>, <<"y", "e", "a", "r", "s">>},
       "Year">>,
     <<{<<"u", "n", "i", "x">>, <<"u", "n", "i", "x", "t", "i", "m", "e">>, <<"t", "i", "m", "e", "s", "t", "a", "m", "p">>},
       "Unix">>,
     <<{<<"r", "u", "n", "n", "i", "n", "g">>},
       "Running">>,
     <<{<<"a", "s">>},
       "As">>,
     <<{<<"b", "i", "t", "-", "a", "n", "d">>},
       "BitAnd">>,
     <<{<<"b", "i", "t", "-", "o", "r">>},
       "BitOr">>,
     <<{<<"b", "i", "t", "-", "x", "o", "r">>},
       "BitXor">>,
     <<{<<"b", "i", "t", "-", "n", "o", "t">>},
       "BitNot">>,
     <<{<<"b", "i", "t", "-", "s", "h", "i", "f", "t", "-", "l", "e", "f", "t">>},
       "BitShiftLeft">>,
     <<{<<"b", "i", "t", "-", "s", "h", "i", "f", "t", "-", "r", "i", "g", "h", "t">>},
       "BitShiftRight">>,
     <<{<<"b", "y", "t", "e">>},
       "Byte">>,
     <<{<<"e", "l", "e", "m", "e", "n", "t">>},
       "Element">>,
     <<{<<"w", "i", "t", "h", "o", "u", "t">>},
       "Without">>
    }

\* The keyword name of each word string_is_keyword knows
KeywordOfString ==
    [w \in UNION {row[1] : row \in StringKeywords} |->
        (CHOOSE row \in StringKeywords : w \in row[1])[2]]

\* Token::string_is_keyword
string_is_keyword(s) ==
    IF to_lowercase(s) \in DOMAIN KeywordOfString THEN <<KeywordOfString[to_lowercase(s)]>>
    ELSE <<>>

KeywordOfToken ==
    [t \in {row[1] : row \in TokenKeywords} |-> (CHOOSE row \in TokenKeywords : row[1] = t)[2]]

\* Token::as_keyword
as_keyword(token) ==
    IF token.t \in DOMAIN KeywordOfToken THEN <<KeywordOfToken[token.t]>> ELSE <<>>

\* ------------------------------------------------------------- characters

LowerCase ==
    <<"a", "b", "c", "d", "e", "f", "g", "h", "i", "j", "k", "l", "m",
      "n", "o", "p", "q", "r", "s", "t", "u", "v", "w", "x", "y", "z">>

UpperCase ==
    <<"A", "B", "C", "D", "E", "F", "G", "H", "I", "J", "K", "L", "M",
      "N", "O", "P", "Q", "R", "S", "T", "U", "V", "W", "X", "Y", "Z">>

DigitChars == <<"0", "1", "2", "3", "4", "5", "6", "7", "8", "9">>

\* char::is_alphabetic and char::is_ascii_digit, on the characters of the model
Letters == Range(LowerCase) \cup Range(UpperCase)

Digits == Range(DigitChars)

HexDigits == Digits \cup {LowerCase[i] : i \in 1..6} \cup {UpperCase[i] : i \in 1..6}

\* char::is_whitespace
Whitespace == {" ", "\t", "\n", "\r"}

IndexOf(seq, c) == CHOOSE i \in DOMAIN seq : seq[i] = c

\* A character as i64
CharCode(c) ==
    CASE c \in Range(LowerCase) -> 96 + IndexOf(LowerCase, c)
      [] c \in Range(UpperCase) -> 64 + IndexOf(UpperCase, c)
      [] c \in Digits -> 47 + IndexOf(DigitChars, c)
      [] c = "\t" -> 9
      [] c = "\n" -> 10
      [] c = "\r" -> 13
      [] c = " " -> 32
      [] c = "\"" -> 34
      [] c = "'" -> 39
      [] c = "(" -> 40
      [] c = ")" -> 41
      [] c = "," -> 44
      [] c = "-" -> 45
      [] c = "." -> 46
      [] c = ":" -> 58
      [] c = ";" -> 59
      [] c = "[" -> 91
      [] c = "\\" -> 92
      [] c = "]" -> 93
      [] c = "_" -> 95

\* The value of a digit in a radix up to 16
DigitValue(c) ==
    CASE c \in Digits -> IndexOf(DigitChars, c) - 1
      [] c \in Range(LowerCase) -> 9 + IndexOf(LowerCase, c)
      [] c \in Range(UpperCase) -> 9 + IndexOf(UpperCase, c)

\* str::parse and i64::from_str_radix, for numbers that fit the model's integers
RECURSIVE from_str_radix(_, _)
from_str_radix(num, radix) ==
    IF num = <<>> THEN 0
    ELSE from_str_radix(SubSeq(num, 1, Len(num) - 1), radix) * radix
         + DigitValue(num[Len(num)])

\* The number of characters at the start of the input that are in cs
PrefixLen(input, cs) ==
    CHOOSE n \in 0..Len(input) :
        /\ \A i \in 1..n : input[i] \in cs
        /\ n = Len(input) \/ input[n + 1] \notin cs

\* The input from its n-th character on, counted from 0
From(input, n) == SubSeq(input, n + 1, Len(input))

\* --------------------------------------------------------------- Lexer

\* What a read leaves of the input, and what it read
Lexed(input, v) == [input |-> input, v |-> v]

skip_whitespace(input) == From(input, PrefixLen(input, {" ", "\t", "\r"}))

\* skip_comment, from depth on
RECURSIVE CommentFrom(_, _)
CommentFrom(input, depth) ==
    IF depth = 0 \/ input = <<>> THEN input
    ELSE CommentFrom(Tail(input),
                     CASE Head(input) = "(" -> depth + 1
                       [] Head(input) = ")" -> depth - 1
                       [] OTHER -> depth)

skip_comment(input) == CommentFrom(input, 1)

\* The character an escape stands for in a string
Escaped(c) ==
    CASE c = "n" -> "\n"
      [] c = "t" -> "\t"
      [] c = "r" -> "\r"
      [] OTHER -> c

\* read_string and read_single_quoted_string, for the quote that ends them
RECURSIVE ReadQuoted(_, _, _)
ReadQuoted(input, quote, result) ==
    IF input = <<>> THEN Lexed(input, result)
    ELSE IF Head(input) = quote THEN Lexed(Tail(input), result)
    ELSE IF Head(input) = "\\"
    THEN IF Len(input) >= 2
         THEN ReadQuoted(From(input, 2), quote, Append(result, Escaped(input[2])))
         ELSE ReadQuoted(Tail(input), quote, result)
    ELSE ReadQuoted(Tail(input), quote, Append(result, Head(input)))

read_string(input) == ReadQuoted(input, "\"", <<>>)

read_single_quoted_string(input) == ReadQuoted(input, "'", <<>>)

\* is_char_literal, for the input after the quote
is_char_literal(input) ==
    IF input = <<>> THEN FALSE
    ELSE IF input[1] = "\\" THEN Len(input) >= 3 /\ input[3] = "'"
    ELSE Len(input) >= 2 /\ input[2] = "'"

\* The number of characters of the input before the first that is in cs
Before(input, cs) ==
    CHOOSE n \in 0..Len(input) :
        /\ \A i \in 1..n : input[i] \notin cs
        /\ n = Len(input) \/ input[n + 1] \in cs

\* A closing quote after n characters, n > 0
QuoteClosed(input, n) == n > 0 /\ n < Len(input) /\ input[n + 1] = "'"

\* is_single_quoted_identifier: not the possessive 's, and a closing quote
\* after at least one character, before any newline
is_single_quoted_identifier(input) ==
    IF /\ input # <<>>
       /\ input[1] \in {"s", "S"}
       /\ (Len(input) = 1 \/ input[2] \in Whitespace \cup {".", ",", "'"})
    THEN FALSE
    ELSE QuoteClosed(input, Before(input, {"'", "\n"}))

\* read_char_literal: the character, then the closing quote if it is there
CharLiteral(input, code) ==
    Lexed(IF input # <<>> /\ Head(input) = "'" THEN Tail(input) ELSE input,
          IntegerLiteral(code))

EscapedCode(c) ==
    CASE c = "n" -> 10
      [] c = "t" -> 9
      [] c = "r" -> 13
      [] c = "0" -> 0
      [] OTHER -> CharCode(c)

read_char_literal(input) ==
    IF input = <<>> THEN CharLiteral(input, 0)
    ELSE IF Head(input) # "\\" THEN CharLiteral(Tail(input), CharCode(Head(input)))
    ELSE IF Len(input) = 1 THEN CharLiteral(Tail(input), 0)
    ELSE CharLiteral(From(input, 2), EscapedCode(input[2]))

\* read_hex_number and read_binary_number, after the prefix
RadixNumber(input, n, radix) ==
    Lexed(From(input, n),
          IntegerLiteral(IF n = 0 THEN 0 ELSE from_str_radix(SubSeq(input, 1, n), radix)))

read_hex_number(input) == RadixNumber(input, PrefixLen(input, HexDigits), 16)

read_binary_number(input) == RadixNumber(input, PrefixLen(input, {"0", "1"}), 2)

\* str::parse::<f64>: the digits without the zeros that end the fraction, and
\* the number of digits after the point
ParseFloat(whole, fraction, zeros) ==
    <<from_str_radix(whole \o SubSeq(fraction, 1, Len(fraction) - zeros), 10),
      Len(fraction) - zeros>>

Reversed(s) == [i \in DOMAIN s |-> s[Len(s) + 1 - i]]

\* read_number: n digits follow the first; a point and m digits after them
\* make a float
FloatNumber(first, input, n, m) ==
    Lexed(From(input, n + 1 + m),
          FloatLiteral(ParseFloat(<<first>> \o SubSeq(input, 1, n),
                                  SubSeq(input, n + 2, n + 1 + m),
                                  PrefixLen(Reversed(SubSeq(input, n + 2, n + 1 + m)), {"0"}))))

DecimalNumber(first, input, n) ==
    IF n + 2 <= Len(input) /\ input[n + 1] = "." /\ input[n + 2] \in Digits
    THEN FloatNumber(first, input, n, PrefixLen(From(input, n + 1), Digits))
    ELSE Lexed(From(input, n),
               IntegerLiteral(from_str_radix(<<first>> \o SubSeq(input, 1, n), 10)))

read_number(first, input) ==
    IF first = "0" /\ input # <<>> /\ Head(input) \in {"x", "X"}
    THEN read_hex_number(Tail(input))
    ELSE IF first = "0" /\ input # <<>> /\ Head(input) \in {"b", "B"}
    THEN read_binary_number(Tail(input))
    ELSE DecimalNumber(first, input, PrefixLen(input, Digits))

s_it == <<"i", "t">>

s_start == <<"s", "t", "a", "r", "t">>

\* The token of each word read_word has an arm for
TokenOfWord ==
    [w \in UNION {row[1] : row \in WordTokens} |->
        (CHOOSE row \in WordTokens : w \in row[1])[2]]

\* read_word, the match on the lowercased word
WordToken(word, lower) ==
    IF lower \in DOMAIN TokenOfWord THEN Tok(TokenOfWord[lower])
    ELSE IF lower \in {s_it, s_start} THEN IdentifierToken(lower)
    ELSE IdentifierToken(word)

WordOf(input, n, first) ==
    Lexed(From(input, n),
          WordToken(<<first>> \o SubSeq(input, 1, n),
                    to_lowercase(<<first>> \o SubSeq(input, 1, n))))

read_word(first, input) ==
    WordOf(input, PrefixLen(input, Letters \cup Digits \cup {"_", "-"}), first)

\* The Lexer on a text, with the locals of tokenize: the tokens pushed so far
\* and whether the loop has ended.  The text is kept as source.
NewLexer(source) == [source |-> source, input |-> source, tokens |-> <<>>, done |-> FALSE]

\* tokens.push(token), the token read from the input
PushToken(L, r) == [L EXCEPT !.input = r.input, !.tokens = Append(@, r.v)]

\* continue
Continue_(L, input) == [L EXCEPT !.input = input]

\* A newline arm that takes only the newlines that follow at once
NewlinesOnly(input) ==
    Lexed(From(input, PrefixLen(input, {"\n"})),
          Tok(IF PrefixLen(input, {"\n"}) >= 1 THEN "ParagraphBreak" ELSE "Newline"))

\* An end of the input that pushes EOF and lets the loop go on
TokenizeOn(L) == [L EXCEPT !.tokens = Append(@, EOF)]

\* tokenize, '\n': the newlines, spaces, tabs and carriage returns that follow
\* are consumed, the newlines counted
NewlineCount(run) == 1 + Cardinality({i \in DOMAIN run : run[i] = "\n"})

NewlineToken(input, n) ==
    Lexed(From(input, n),
          Tok(IF NewlineCount(SubSeq(input, 1, n)) >= 2 THEN "ParagraphBreak" ELSE "Newline"))

NewlineRun(input) == NewlineToken(input, PrefixLen(input, {"\n", " ", "\t", "\r"}))

\* tokenize, '\''
IdentifierRead(r) == Lexed(r.input, IdentifierToken(r.v))

QuoteToken(input) ==
    IF is_char_literal(input) THEN read_char_literal(input)
    ELSE IF is_single_quoted_identifier(input)
    THEN IdentifierRead(read_single_quoted_string(input))
    ELSE Lexed(input, Tok("Apostrophe"))

StringRead(r) == Lexed(r.input, StringLiteral(r.v))

\* tokenize, the match on the character
TokenizeChar(L, ch, input) ==
    CASE ch = "\n" -> PushToken(L, NewlineRun(input))
      [] ch = "." -> PushToken(L, Lexed(input, Tok("Period")))
      [] ch = "," -> PushToken(L, Lexed(input, Tok("Comma")))
      [] ch = ":" -> PushToken(L, Lexed(input, Tok("Colon")))
      [] ch = "(" -> Continue_(L, skip_comment(input))
      [] ch = ")" -> Continue_(L, input)
      [] ch = "[" -> PushToken(L, Lexed(input, Tok("OpenBracket")))
      [] ch = "]" -> PushToken(L, Lexed(input, Tok("CloseBracket")))
      [] ch = "-" -> PushToken(L, Lexed(input, Tok("Minus")))
      [] ch = "'" -> PushToken(L, QuoteToken(input))
      [] ch = "\"" -> PushToken(L, StringRead(read_string(input)))
      [] ch \in Digits -> PushToken(L, read_number(ch, input))
      [] ch \in Letters -> PushToken(L, read_word(ch, input))
      [] OTHER -> Continue_(L, input)

\* tokenize, None => Token::EOF: the token is pushed and the loop ends
TokenizeEnd(L) == [L EXCEPT !.tokens = Append(@, EOF), !.done = TRUE]

TokenizeAt(L, input) ==
    IF input = <<>> THEN TokenizeEnd([L EXCEPT !.input = input])
    ELSE TokenizeChar(L, Head(input), Tail(input))

\* One turn of the loop of tokenize
TokenizeTurn(L) == TokenizeAt(L, skip_whitespace(L.input))

\* tokenize: the tokens of the text
RECURSIVE TokenizeFrom(_)
TokenizeFrom(L) == IF L.done THEN L.tokens ELSE TokenizeFrom(TokenizeTurn(L))

tokenize(source) == TokenizeFrom(NewLexer(source))

\* ------------------------------------------------------------------ words

\* The words read_word has an arm for, the words string_is_keyword knows, and
\* some words neither has: names, and words in capitals
TableWords == DOMAIN TokenOfWord

KeywordStrings == DOMAIN KeywordOfString

OtherWords ==
    {<<"t", "o", "t", "a", "l">>, <<"i", "t">>, <<"I", "t">>, <<"s", "t", "a", "r", "t">>,
     <<"P", "r", "i", "n", "t">>, <<"S", "T", "O", "R", "E">>, <<"E", "n", "d">>,
     <<"x", "_", "1">>, <<"b", "i", "t">>, <<"i", "s", "n">>}

Words == TableWords \cup KeywordStrings \cup OtherWords

\* ------------------------------------------------------------------ texts

\* The texts of up to MaxInput characters: a letter, a space, a newline, the
\* parentheses of a comment, a quote, and a character tokenize does not know
MaxInput == 4

TextChars == {"a", " ", "\n", "(", ")", "\"", ";"}

Texts == UNION {[1..n -> TextChars] : n \in 0..MaxInput}

\* ------------------------------------------------- statements of the parser

Assignment(name, value) == [k |-> "Assignment", name |-> name, value |-> value]

While(condition, body) == [k |-> "While", condition |-> condition, body |-> body]

Repeat(count, body) == [k |-> "Repeat", count |-> count, body |-> body]

ForEach(variable, collection, body) ==
    [k |-> "ForEach", variable |-> variable, collection |-> collection, body |-> body]

ForRange(variable, range, body) ==
    [k |-> "ForRange", variable |-> variable, range |-> range, body |-> body]

RangeExpr(start, end) == [k |-> "Range", start |-> start, end |-> end]

TreatingAs(value, match_value, replacement) ==
    [k |-> "TreatingAs", value |-> value, match_value |-> match_value,
     replacement |-> replacement]

Break == [k |-> "Break"]

Continue == [k |-> "Continue"]

\* ---------------------------------------------------------------- parser

\* The Parser: the tokens and the position, counted from 0
NewParser(tokens) == [tokens |-> tokens, pos |-> 0]

\* self.tokens.get(i), EOF beyond the end
TokenAt(P, i) == IF i < Len(P.tokens) THEN P.tokens[i + 1] ELSE EOF

current(P) == TokenAt(P, P.pos)

peek(P, offset) == TokenAt(P, P.pos + offset)

\* matches!(self.current(), ...) for the variants ts
At(P, ts) == current(P).t \in ts

advance(P) == [P EXCEPT !.pos = @ + 1]

\* while matches!(self.current(), ts) { self.advance(); }
SkipWhile(P, ts) ==
    [P EXCEPT !.pos = CHOOSE j \in P.pos..(P.pos + Len(P.tokens)) :
                          /\ TokenAt(P, j).t \notin ts
                          /\ \A i \in P.pos..(j - 1) : TokenAt(P, i).t \in ts]

skip_noise(P) == SkipWhile(P, {"Newline"})

skip_all_whitespace(P) == SkipWhile(P, {"Newline", "ParagraphBreak"})

\* expect, its result not looked at
expect(P, t) == IF At(P, {t}) THEN advance(P) ELSE P

\* Result<_, CompileError> with the parser as the call left it
Ok(P, v) == [ok |-> TRUE, P |-> P, v |-> v]

Err(P, message) == [ok |-> FALSE, P |-> P, v |-> message]

\* The error of a path of the parser that is not part of this model
OutsideModel == "outside the model"

MsgExpectedStatement == "Expected a statement"

\* The result with newlines skipped after it
SkipNoiseAfter(r) == IF r.ok THEN [r EXCEPT !.P = skip_noise(@)] ELSE r

RECURSIVE parse_statement(_)
RECURSIVE parse_expression(_)
RECURSIVE parse_primary(_)
RECURSIVE parse_comparison(_)
RECURSIVE parse_block(_)
RECURSIVE parse_sentence_body(_)
RECURSIVE CallArguments(_, _, _)
RECURSIVE AndOperands(_)
RECURSIVE OrOperands(_)
RECURSIVE ConditionalNext(_, _, _)
RECURSIVE ElseClauses(_, _, _, _)
RECURSIVE SentenceLoop(_, _)
RECURSIVE BlockLoop(_, _)
RECURSIVE RepeatLoop(_, _, _)
RECURSIVE WhileLoop(_, _, _)
RECURSIVE FunctionBody(_, _, _, _)
RECURSIVE FunctionParams(_, _, _)

\* ---------------------------------------------------------- expressions

\* parse_primary, Token::StringLiteral: the end of the argument loop of a call
CallArgumentsEnd(P, name, args) ==
    IF At(P, {"Comma"})
    THEN IF At(skip_noise(advance(P)), {"And"})
         THEN CallArguments(skip_noise(advance(skip_noise(advance(P)))), name, args)
         ELSE Ok(skip_noise(advance(P)), ExprFunctionCall(name, args))
    ELSE IF At(P, {"And"}) THEN CallArguments(skip_noise(advance(P)), name, args)
    ELSE Ok(P, ExprFunctionCall(name, args))

CallArgumentParsed(r, name, args) ==
    IF ~r.ok THEN r ELSE CallArgumentsEnd(skip_noise(r.P), name, Append(args, r.v))

CallArguments(P, name, args) == CallArgumentParsed(parse_expression(P), name, args)

\* parse_primary, Token::StringLiteral, after the literal and the newlines.
\* The strings of the model hold no brace, so none is a format string.
StringPrimary(P, s) ==
    IF At(P, {"Of", "To", "With", "On"}) THEN CallArguments(skip_noise(advance(P)), s, <<>>)
    ELSE IF At(P, {"Apostrophe"}) THEN Err(P, OutsideModel)
    ELSE Ok(P, StringLit(s))

NegateOperand(r) == IF r.ok THEN Ok(r.P, UnaryOp("Negate", r.v)) ELSE r

PrimaryAt(P) ==
    CASE At(P, {"IntegerLiteral"}) -> Ok(advance(P), IntegerLit(current(P).n))
      [] At(P, {"StringLiteral"}) -> StringPrimary(skip_noise(advance(P)), current(P).s)
      [] At(P, {"Identifier"}) ->
            IF At(skip_noise(advance(P)), {"Apostrophe"}) THEN Err(P, OutsideModel)
            ELSE Ok(skip_noise(advance(P)), Identifier(current(P).s))
      [] At(P, {"Minus"}) -> NegateOperand(parse_primary(skip_noise(advance(P))))
      [] At(P, {"FloatLiteral"}) -> Ok(advance(P), FloatLit(current(P).x))
      [] At(P, {"Not", "Byte", "Element", "True", "False", "Current",
                  "Arguments", "Argument", "Environment", "OpenBracket", "All", "Number",
                  "The", "A", "An"}) -> Err(P, OutsideModel)
      [] OTHER -> Err(P, MsgExpectedStatement)

parse_primary(P) == PrimaryAt(skip_noise(P))

\* parse_bitwise, parse_multiplicative and parse_additive: the tokens of the
\* model hold no operator of theirs, so each loop ends at its first test
parse_bitwise(P) == SkipNoiseAfter(parse_primary(P))

parse_multiplicative(P) == SkipNoiseAfter(parse_bitwise(P))

parse_additive(P) == SkipNoiseAfter(parse_multiplicative(P))

ExpressionCast(r) == IF r.ok /\ At(r.P, {"As"}) THEN Err(r.P, OutsideModel) ELSE r

parse_expression(P) == ExpressionCast(SkipNoiseAfter(parse_additive(P)))

has_are_ahead(P) ==
    \E i \in 1..19 :
        /\ peek(P, i).t = "Are"
        /\ \A j \in 1..(i - 1) : peek(P, j).t \notin {"Period", "EOF", "ParagraphBreak", "Is"}

ComparisonAt(P, left) ==
    IF (At(P, {"Comma"}) /\ has_are_ahead(P)) \/ At(P, {"Is", "Are"}) THEN Err(P, OutsideModel)
    ELSE Ok(P, left)

ComparisonLeft(r) == IF r.ok THEN ComparisonAt(skip_noise(r.P), r.v) ELSE r

parse_comparison(P) == ComparisonLeft(parse_expression(P))

\* left op right, for the right operand just parsed
Operands(left, op, r) == IF r.ok THEN Ok(r.P, BinaryOp(left, op, r.v)) ELSE r

AndOperands(r) ==
    IF r.ok /\ At(r.P, {"And"})
    THEN AndOperands(Operands(r.v, "And", parse_comparison(skip_noise(advance(r.P)))))
    ELSE r

parse_and_expr(P) == AndOperands(parse_comparison(P))

OrOperands(r) ==
    IF r.ok /\ At(r.P, {"Or"})
    THEN OrOperands(Operands(r.v, "Or", parse_and_expr(skip_noise(advance(r.P)))))
    ELSE r

parse_or_expr(P) == OrOperands(parse_and_expr(P))

parse_condition(P) == parse_or_expr(P)

\* ----------------------------------------------------------- statements

is_block_terminator(P) == At(P, {"Return"})

\* parse_conditional_print: the nested if-statements, the first condition outermost
RECURSIVE ConditionalPrint(_, _)
ConditionalPrint(conditions, default_value) ==
    IF conditions = <<>> THEN PrintStmt(default_value)
    ELSE If(Head(conditions)[1], <<PrintStmt(Head(conditions)[2])>>, <<>>,
            Some(<<ConditionalPrint(Tail(conditions), default_value)>>))

\* <condition> [print] <value>, as the pair of the two
ClausePair(cond, r) == IF r.ok THEN Ok(r.P, <<cond, r.v>>) ELSE r

ClauseValue(P, cond) == ClausePair(cond, parse_primary(skip_noise(expect(P, "Print"))))

ClauseCondition(r) == IF r.ok THEN ClauseValue(skip_noise(r.P), r.v) ELSE r

ConditionalClause(P) == ClauseCondition(parse_condition(P))

\* The loop of parse_conditional_print after a clause, and its end
ClauseParsed(r, conditions, default_value) ==
    IF r.ok THEN ConditionalNext(r.P, Append(conditions, r.v), default_value) ELSE r

LastClauseParsed(r, conditions, default_value) ==
    IF r.ok THEN Ok(r.P, ConditionalPrint(Append(conditions, r.v), default_value)) ELSE r

\* After the comma, but or and of a continuation, and the but after a comma
ConditionalContinuation(P, conditions, default_value) ==
    IF At(P, {"If"})
    THEN ClauseParsed(ConditionalClause(skip_noise(advance(P))), conditions, default_value)
    ELSE IF At(P, {"Else", "Otherwise"})
    THEN LastClauseParsed(ClauseValue(skip_noise(advance(P)), BoolLit(TRUE)),
                          conditions, default_value)
    ELSE Ok(P, ConditionalPrint(conditions, default_value))

ConditionalNext(P, conditions, default_value) ==
    IF ~At(P, {"But", "Comma", "And"}) THEN Ok(P, ConditionalPrint(conditions, default_value))
    ELSE ConditionalContinuation(
            IF At(P, {"Comma"}) /\ At(skip_noise(advance(P)), {"But"})
            THEN skip_noise(advance(skip_noise(advance(P))))
            ELSE skip_noise(advance(P)),
            conditions, default_value)

FirstClauseParsed(r, default_value) ==
    IF r.ok THEN ConditionalNext(skip_noise(r.P), <<r.v>>, default_value) ELSE r

\* parse_conditional_print, called at the if
parse_conditional_print(P, default_value) ==
    FirstClauseParsed(ConditionalClause(skip_noise(advance(P))), default_value)

\* ------------------------------------------- treating and loop expansion

FormatExpression(expr) == [k |-> "Expression", expr |-> expr]

MsgMissingMatchValue == "Missing match value after 'treating'"

MsgMissingAs == "Missing 'as' after 'treating'"

MsgMissingReplacement == "Missing replacement value after 'as'"

MsgMissingLoopVariable == "Missing loop variable after 'each'"

MsgMissingFrom == "Missing 'from' after 'each'"

MsgButIfOnlyPrint == "'but if' conditional branching only works with print statements"

MsgExpectedIfAfterBut == "Expected 'if' after 'but'"

MsgExpectedEach == "Expected 'each' after 'for'"

MsgExpectedFrom == "Expected 'from', 'between', or 'in' after for each"

s_number == <<"n", "u", "m", "b", "e", "r">>

\* try_parse_treating: a match value or a replacement, a string or an identifier
TreatingValue(P, message) ==
    CASE At(P, {"StringLiteral"}) -> Ok(advance(P), StringLit(current(P).s))
      [] At(P, {"Identifier"}) -> Ok(advance(P), Identifier(current(P).s))
      [] OTHER -> Err(P, message)

TreatingReplacement(r, match_value) ==
    IF r.ok THEN Ok(skip_noise(r.P), Some(<<match_value, r.v>>)) ELSE r

TreatingAsWord(P, match_value) ==
    IF At(P, {"As"}) \/ (At(P, {"Identifier"}) /\ to_lowercase(current(P).s) = <<"a", "s">>)
    THEN TreatingReplacement(TreatingValue(skip_noise(advance(P)), MsgMissingReplacement),
                             match_value)
    ELSE Err(P, MsgMissingAs)

TreatingMatch(r) == IF r.ok THEN TreatingAsWord(skip_noise(r.P), r.v) ELSE r

\* try_parse_treating: None without the clause, else Some(<<match, replacement>>)
try_parse_treating(P) ==
    IF ~At(P, {"Treating"}) THEN Ok(P, None)
    ELSE TreatingMatch(TreatingValue(skip_noise(advance(P)), MsgMissingMatchValue))

RECURSIVE apply_treating_to_expr(_, _, _, _)
RECURSIVE apply_treating_to_statement(_, _, _, _)

\* apply_treating_to_expr, a part of a format string
TreatingPart(part, variable, match_val, replacement) ==
    CASE part.k = "Expression" ->
            FormatExpression(apply_treating_to_expr(part.expr, variable, match_val, replacement))
      [] part.k = "Variable" /\ part.name = variable ->
            FormatExpression(TreatingAs(Identifier(part.name), match_val, replacement))
      [] OTHER -> part

apply_treating_to_expr(expr, variable, match_val, replacement) ==
    CASE expr.k = "Identifier" /\ expr.name = variable ->
            TreatingAs(expr, match_val, replacement)
      [] expr.k = "FormatString" ->
            FormatString([i \in DOMAIN expr.parts |->
                             TreatingPart(expr.parts[i], variable, match_val, replacement)])
      [] expr.k = "BinaryOp" ->
            BinaryOp(apply_treating_to_expr(expr.left, variable, match_val, replacement),
                     expr.op,
                     apply_treating_to_expr(expr.right, variable, match_val, replacement))
      [] OTHER -> expr

apply_treating_to_body(body, variable, match_val, replacement) ==
    [i \in DOMAIN body |-> apply_treating_to_statement(body[i], variable, match_val, replacement)]

\* apply_treating_to_statement, an else-if branch and the else-branch
TreatingBranch(branch, variable, match_val, replacement) ==
    <<apply_treating_to_expr(branch[1], variable, match_val, replacement),
      apply_treating_to_body(branch[2], variable, match_val, replacement)>>

TreatingElse(else_block, variable, match_val, replacement) ==
    IF else_block = None THEN None
    ELSE Some(apply_treating_to_body(else_block[1], variable, match_val, replacement))

apply_treating_to_statement(stmt, variable, match_val, replacement) ==
    CASE stmt.k \in {"Print", "Assignment", "FileWrite"} ->
            [stmt EXCEPT !.value = apply_treating_to_expr(@, variable, match_val, replacement)]
      [] stmt.k = "If" ->
            If(apply_treating_to_expr(stmt.condition, variable, match_val, replacement),
               apply_treating_to_body(stmt.then_block, variable, match_val, replacement),
               [i \in DOMAIN stmt.else_if_blocks |->
                   TreatingBranch(stmt.else_if_blocks[i], variable, match_val, replacement)],
               TreatingElse(stmt.else_block, variable, match_val, replacement))
      [] stmt.k = "FunctionCall" ->
            [stmt EXCEPT !.args =
                [i \in DOMAIN @ |-> apply_treating_to_expr(@[i], variable, match_val, replacement)]]
      [] OTHER -> stmt

\* try_parse_each_from: None without an each, else Some of the variable, the
\* collection and the treating clause
EachTreating(r, variable, collection) ==
    IF r.ok
    THEN Ok(r.P, Some([variable |-> variable, collection |-> collection, treating |-> r.v]))
    ELSE r

EachRangeEnd(r, variable, first) ==
    IF r.ok
    THEN EachTreating(try_parse_treating(skip_noise(r.P)), variable, RangeExpr(first, r.v))
    ELSE r

EachCollection(P, variable, first) ==
    IF At(P, {"To"}) THEN EachRangeEnd(parse_primary(skip_noise(advance(P))), variable, first)
    ELSE EachTreating(try_parse_treating(P), variable, first)

EachFirst(r, variable) == IF r.ok THEN EachCollection(skip_noise(r.P), variable, r.v) ELSE r

EachFrom(P, variable) ==
    IF ~At(P, {"From"}) THEN Err(P, MsgMissingFrom)
    ELSE EachFirst(parse_primary(skip_noise(advance(P))), variable)

EachVariable(P) ==
    CASE At(P, {"Identifier"}) -> EachFrom(skip_noise(advance(P)), current(P).s)
      [] At(P, {"Number"}) -> EachFrom(skip_noise(advance(P)), s_number)
      [] OTHER -> Err(P, MsgMissingLoopVariable)

try_parse_each_from(P) ==
    IF ~At(P, {"Each"}) THEN Ok(P, None) ELSE EachVariable(skip_noise(advance(P)))

\* wrap_in_loop_expansion
RECURSIVE ExpansionLoop(_, _, _, _)

LoopOf(variable, collection, body) ==
    IF collection.k = "Range" THEN ForRange(variable, collection, body)
    ELSE ForEach(variable, collection, body)

ExpansionEnd(P, variable, collection, body) ==
    Ok(IF At(P, {"Period"}) THEN skip_noise(advance(P)) ELSE P,
       LoopOf(variable, collection, body))

ExpansionNext(P, variable, collection, body) ==
    IF At(P, {"Comma"}) THEN ExpansionLoop(skip_noise(advance(P)), variable, collection, body)
    ELSE ExpansionEnd(P, variable, collection, body)

ExpansionStatement(r, variable, collection, body) ==
    IF r.ok THEN ExpansionNext(skip_noise(r.P), variable, collection, Append(body, r.v)) ELSE r

ExpansionLoop(P, variable, collection, body) ==
    IF At(P, {"Period", "EOF", "ParagraphBreak"}) THEN ExpansionEnd(P, variable, collection, body)
    ELSE ExpansionStatement(parse_statement(P), variable, collection, body)

ExpansionConditional(r, variable, collection) ==
    IF r.ok THEN ExpansionEnd(r.P, variable, collection, <<r.v>>) ELSE r

ExpansionBut(P, variable, collection, base_stmt) ==
    IF ~At(P, {"If"}) THEN Err(P, MsgExpectedIfAfterBut)
    ELSE IF base_stmt.k # "Print" THEN Err(P, MsgButIfOnlyPrint)
    ELSE ExpansionConditional(parse_conditional_print(P, base_stmt.value), variable, collection)

ExpansionAfterComma(P, variable, collection, base_stmt) ==
    IF At(P, {"But"}) THEN ExpansionBut(skip_noise(advance(P)), variable, collection, base_stmt)
    ELSE ExpansionLoop(P, variable, collection, <<base_stmt>>)

wrap_in_loop_expansion(P, variable, collection, base_stmt) ==
    IF At(P, {"Comma"})
    THEN ExpansionAfterComma(skip_noise(advance(P)), variable, collection, base_stmt)
    ELSE ExpansionEnd(P, variable, collection, <<base_stmt>>)

\* parse_print, print each <variable> from <collection> [treating <match> as <replacement>]
EachValue(each) ==
    IF each.treating = None THEN Identifier(each.variable)
    ELSE TreatingAs(Identifier(each.variable), each.treating[1][1], each.treating[1][2])

PrintEach(r) ==
    IF r.ok
    THEN wrap_in_loop_expansion(r.P, r.v[1].variable, r.v[1].collection,
                                PrintStmt(EachValue(r.v[1])))
    ELSE r

\* parse_for: the body, statements after commas up to a period
RECURSIVE ForBodyLoop(_, _)

ForBodyNext(P, body) ==
    IF At(P, {"Comma"}) THEN ForBodyLoop(skip_noise(advance(P)), body)
    ELSE Ok(IF At(P, {"Period"}) THEN skip_noise(advance(P)) ELSE P, body)

ForBodyStatement(r, body) ==
    IF r.ok THEN ForBodyNext(skip_noise(r.P), Append(body, r.v)) ELSE r

ForBodyLoop(P, body) ==
    IF At(P, {"EOF"}) THEN Ok(P, body) ELSE ForBodyStatement(parse_statement(P), body)

ForRangeBody(r, variable, start, end) ==
    IF r.ok THEN Ok(r.P, ForRange(variable, RangeExpr(start, end), r.v)) ELSE r

ForRangeEnd(r, variable, start) ==
    IF r.ok
    THEN ForRangeBody(ForBodyLoop(skip_noise(expect(skip_noise(r.P), "Comma")), <<>>),
                      variable, start, r.v)
    ELSE r

ForEachBody(r, variable, collection, treating) ==
    IF ~r.ok THEN r
    ELSE Ok(r.P, ForEach(variable, collection,
                         IF treating = None THEN r.v
                         ELSE apply_treating_to_body(r.v, variable, treating[1][1],
                                                     treating[1][2])))

ForTreating(r, variable, collection) ==
    IF r.ok
    THEN ForEachBody(ForBodyLoop(skip_noise(expect(r.P, "Comma")), <<>>),
                     variable, collection, r.v)
    ELSE r

ForStart(P, variable, start) ==
    IF At(P, {"To"}) \/ (At(P, {"Identifier"}) /\ current(P).s = <<"t", "o">>)
    THEN ForRangeEnd(parse_primary(skip_noise(advance(P))), variable, start)
    ELSE ForTreating(try_parse_treating(P), variable,
                     IF start.k = "StringLit" THEN Identifier(start.s) ELSE start)

ForFirst(r, variable) == IF r.ok THEN ForStart(skip_noise(r.P), variable, r.v) ELSE r

ForKind(P, variable) ==
    IF At(P, {"From", "Between"}) THEN ForFirst(parse_primary(skip_noise(advance(P))), variable)
    ELSE IF At(P, {"In"}) THEN Err(P, OutsideModel)
    ELSE Err(P, MsgExpectedFrom)

ForVariable(P) ==
    CASE At(P, {"Identifier"}) -> ForKind(skip_noise(advance(P)), current(P).s)
      [] At(P, {"Number"}) -> ForKind(skip_noise(advance(P)), s_number)
      [] OTHER -> Err(P, MsgMissingLoopVariable)

ForAt(P) == IF ~At(P, {"Each"}) THEN Err(P, MsgExpectedEach) ELSE ForVariable(skip_noise(advance(P)))

parse_for(P) == ForAt(skip_noise(advance(P)))

\* parse_print after the value: Q is the position after a but or comma (and a
\* but that follows it), P the position before them
PrintContinuation(P, Q, value) ==
    IF At(P, {"But", "Comma"}) /\ At(Q, {"If"}) THEN parse_conditional_print(Q, value)
    ELSE Ok(P, PrintStmt(value))

PrintValueParsed(P, value) ==
    IF At(P, {"Without"}) THEN Err(P, OutsideModel)
    ELSE PrintContinuation(P, skip_noise(expect(skip_noise(advance(P)), "But")), value)

PrintValue(r) == IF r.ok THEN PrintValueParsed(skip_noise(r.P), r.v) ELSE r

\* parse_print after the print: without an each, the look-ahead for a call of
\* a function on each element restores the position
PrintAt(P) ==
    IF At(P, {"Each"}) THEN PrintEach(try_parse_each_from(P))
    ELSE IF /\ At(P, {"StringLiteral"})
            /\ At(skip_noise(advance(P)), {"Of", "To", "With", "On"})
            /\ At(skip_noise(advance(skip_noise(advance(P)))), {"Each"})
    THEN Err(P, OutsideModel)
    ELSE PrintValue(parse_expression(P))

parse_print(P) == PrintAt(skip_noise(advance(P)))

\* parse_sentence_body
SentenceEnd(P, statements) ==
    Ok(IF At(P, {"Period"}) THEN skip_noise(advance(P)) ELSE P, statements)

SentenceNext(P, statements) ==
    IF At(P, {"Comma"}) THEN SentenceLoop(skip_noise(advance(P)), statements)
    ELSE SentenceEnd(P, statements)

SentenceStatement(r, statements) ==
    IF r.ok THEN SentenceNext(skip_noise(r.P), Append(statements, r.v)) ELSE r

SentenceLoop(P, statements) ==
    IF At(P, {"Period", "EOF", "ParagraphBreak"}) THEN SentenceEnd(P, statements)
    ELSE SentenceStatement(parse_statement(P), statements)

parse_sentence_body(P) == SentenceLoop(P, <<>>)

\* parse_block
BlockAfterSeparator(P, statements) ==
    IF At(P, {"But", "Else", "Otherwise", "EOF", "Period", "ParagraphBreak"})
    THEN Ok(P, statements)
    ELSE BlockLoop(parse_statement(P), statements)

BlockNext(P, statements) ==
    IF /\ At(P, {"Period", "Comma"})
       /\ peek(P, 1).t \notin {"But", "Else", "Otherwise", "EOF", "ParagraphBreak"}
    THEN BlockAfterSeparator(skip_noise(advance(P)), statements)
    ELSE Ok(P, statements)

BlockLoop(r, statements) == IF r.ok THEN BlockNext(r.P, Append(statements, r.v)) ELSE r

parse_block(P) == BlockLoop(parse_statement(P), <<>>)

\* parse_if: <condition> then, <block>, as the pair of the two
BranchPair(cond, r) == IF r.ok THEN Ok(r.P, <<cond, r.v>>) ELSE r

BranchCondition(r) ==
    IF r.ok
    THEN BranchPair(r.v, parse_block(skip_noise(expect(expect(skip_noise(r.P), "Then"),
                                                       "Comma"))))
    ELSE r

Branch(P) == BranchCondition(parse_condition(P))

ElseIfParsed(r, condition, then_block, else_if_blocks) ==
    IF r.ok THEN ElseClauses(r.P, condition, then_block, Append(else_if_blocks, r.v)) ELSE r

ElseParsed(r, condition, then_block, else_if_blocks) ==
    IF r.ok THEN Ok(r.P, If(condition, then_block, else_if_blocks, Some(r.v))) ELSE r

\* The loop over but, else and otherwise
ElseClause(P, condition, then_block, else_if_blocks) ==
    IF At(P, {"If", "When"})
    THEN ElseIfParsed(Branch(skip_noise(advance(P))), condition, then_block, else_if_blocks)
    ELSE ElseParsed(parse_sentence_body(skip_noise(expect(P, "Comma"))),
                    condition, then_block, else_if_blocks)

ElseClauses(P, condition, then_block, else_if_blocks) ==
    IF At(P, {"But", "Else", "Otherwise"})
    THEN ElseClause(skip_noise(advance(P)), condition, then_block, else_if_blocks)
    ELSE Ok(P, If(condition, then_block, else_if_blocks, None))

\* The period after the then-block is consumed when an else follows it
PeriodBeforeElse(P) ==
    IF At(P, {"Period"}) /\ peek(P, 1).t \in {"But", "Else", "Otherwise"}
    THEN skip_noise(advance(P))
    ELSE P

ThenParsed(r) ==
    IF r.ok THEN ElseClauses(PeriodBeforeElse(skip_noise(r.P)), r.v[1], r.v[2], <<>>) ELSE r

parse_if(P) == ThenParsed(Branch(skip_noise(advance(P))))

\* parse_while
WhileNext(P, condition, body) ==
    CASE At(P, {"Comma"}) ->
            WhileLoop(skip_all_whitespace(skip_noise(advance(P))), condition, body)
      [] At(P, {"Period"}) -> Ok(skip_noise(advance(P)), While(condition, body))
      [] At(P, {"ParagraphBreak"}) -> WhileLoop(skip_noise(advance(P)), condition, body)
      [] At(P, {"EOF"}) -> Ok(P, While(condition, body))
      [] OTHER -> WhileLoop(P, condition, body)

WhileStatement(r, condition, body) ==
    IF r.ok THEN WhileNext(skip_noise(r.P), condition, Append(body, r.v)) ELSE r

WhileLoop(P, condition, body) ==
    IF At(P, {"EOF"}) \/ (body # <<>> /\ is_block_terminator(P))
    THEN Ok(P, While(condition, body))
    ELSE WhileStatement(parse_statement(P), condition, body)

WhileCondition(r) ==
    IF r.ok THEN WhileLoop(skip_noise(expect(skip_noise(r.P), "Comma")), r.v, <<>>) ELSE r

parse_while(P) == WhileCondition(parse_condition(skip_noise(advance(P))))

\* parse_repeat
RepeatAfterPeriod(P, count, body) ==
    IF is_block_terminator(P) \/ At(P, {"ParagraphBreak", "EOF"})
    THEN Ok(P, Repeat(count, body))
    ELSE RepeatLoop(P, count, body)

RepeatNext(P, count, body) ==
    IF At(P, {"Period"}) THEN RepeatAfterPeriod(skip_noise(advance(P)), count, body)
    ELSE RepeatLoop(P, count, body)

RepeatStatement(r, count, body) ==
    IF r.ok THEN RepeatNext(skip_noise(r.P), count, Append(body, r.v)) ELSE r

RepeatLoop(P, count, body) ==
    IF At(P, {"ParagraphBreak", "EOF"}) \/ (body # <<>> /\ is_block_terminator(P))
    THEN Ok(P, Repeat(count, body))
    ELSE RepeatStatement(parse_statement(P), count, body)

RepeatCount(r) ==
    IF r.ok
    THEN RepeatLoop(skip_noise(expect(skip_noise(expect(skip_noise(r.P), "Times")), "Comma")),
                    r.v, <<>>)
    ELSE r

parse_repeat(P) == RepeatCount(parse_primary(skip_noise(advance(P))))

\* parse_return
ReturnValue(r) == IF r.ok THEN Ok(r.P, ReturnStmt(Some(r.v))) ELSE r

ReturnAt(P) ==
    IF At(P, {"Period", "EOF", "Newline"}) THEN Ok(P, ReturnStmt(None))
    ELSE IF At(P, {"A", "An"}) THEN Err(P, OutsideModel)
    ELSE ReturnValue(parse_expression(P))

parse_return(P) == ReturnAt(skip_noise(advance(P)))

\* parse_identifier_statement
AssignmentValue(name, r) == IF r.ok THEN Ok(r.P, Assignment(name, r.v)) ELSE r

IdentifierStatement(P, name) ==
    IF At(P, {"Is", "Equals"})
    THEN AssignmentValue(name, parse_expression(skip_noise(advance(P))))
    ELSE Ok(P, FunctionCall(name, <<>>))

parse_identifier_statement(P) == IdentifierStatement(skip_noise(advance(P)), current(P).s)

\* parse_function_def: the body, up to a paragraph break or the end
FunctionEnd(P, name, params, body) ==
    Ok(IF At(P, {"ParagraphBreak"}) THEN advance(P) ELSE P, FunctionDef(name, params, body))

FunctionStatement(r, name, params, body) ==
    IF r.ok THEN FunctionBody(r.P, name, params, Append(body, r.v)) ELSE r

FunctionBodyAt(P, name, params, body) ==
    IF At(P, {"ParagraphBreak", "EOF"}) THEN FunctionEnd(P, name, params, body)
    ELSE FunctionStatement(parse_statement(P), name, params, body)

FunctionBody(P, name, params, body) ==
    IF At(P, {"ParagraphBreak", "EOF"}) THEN FunctionEnd(P, name, params, body)
    ELSE FunctionBodyAt(IF At(skip_noise(P), {"Period"})
                        THEN skip_noise(advance(skip_noise(P)))
                        ELSE skip_noise(P),
                        name, params, body)

\* Return [a] [<type>,] <condition> after the signature
FunctionReturnValue(r, name, params) ==
    IF r.ok THEN FunctionBody(r.P, name, params, <<ReturnStmt(Some(r.v))>>) ELSE r

FunctionReturnType(P, name, params) ==
    FunctionReturnValue(
        parse_condition(IF At(P, {"Number", "Text", "Boolean"})
                        THEN skip_noise(expect(skip_noise(advance(P)), "Comma"))
                        ELSE P),
        name, params)

FunctionReturn(P, name, params) ==
    IF At(P, {"Return"})
    THEN FunctionReturnType(IF At(skip_noise(advance(P)), {"A", "An"})
                            THEN skip_noise(advance(skip_noise(advance(P))))
                            ELSE skip_noise(advance(P)),
                            name, params)
    ELSE FunctionBody(P, name, params, <<>>)

\* After the parameters: the period after the signature is optional
FunctionSignatureEnd(P, name, params) ==
    FunctionReturn(IF At(skip_noise(P), {"Period"})
                   THEN skip_noise(advance(skip_noise(P)))
                   ELSE skip_noise(P),
                   name, params)

FunctionParamsNext(P, name, params) ==
    IF At(P, {"And"}) THEN FunctionParams(skip_noise(advance(P)), name, params)
    ELSE FunctionSignatureEnd(P, name, params)

FunctionParamAt(P, name, params) ==
    CASE At(P, {"Identifier"}) ->
            FunctionParamsNext(skip_noise(advance(P)), name,
                               Append(params, <<current(P).s, "Unknown">>))
      [] At(P, {"A", "An", "Number", "Text", "Boolean", "List", "Called"}) ->
            Err(P, OutsideModel)
      [] At(P, {"StringLiteral"}) ->
            FunctionParamsNext(skip_noise(advance(P)), name,
                               Append(params, <<current(P).s, "Unknown">>))
      [] OTHER -> Err(P, "Missing parameter name")

FunctionParams(P, name, params) == FunctionParamAt(skip_noise(P), name, params)

FunctionName(P, name) ==
    IF At(P, {"With", "Of"}) THEN FunctionParams(skip_noise(advance(P)), name, <<>>)
    ELSE FunctionSignatureEnd(P, name, <<>>)

FunctionDefAt(P) ==
    IF At(P, {"StringLiteral", "Identifier"})
    THEN FunctionName(skip_noise(advance(P)), current(P).s)
    ELSE Err(P, "Missing function name after 'To'")

parse_function_def(P) == FunctionDefAt(skip_noise(advance(P)))

\* ------------------------------------------------------------ declarations

MsgReservedKeyword == "Cannot use a reserved keyword as a variable name"

MsgReservedBufferName == "Cannot use a reserved keyword as a buffer name"

MsgMissingCalled == "Missing 'called' after the type"

MsgMissingName == "Missing name after 'called'"

MsgExpectedSize == "Expected 'size'"

MsgExpectedVariableName == "Expected variable name"

MsgSizePositive == "Invalid buffer size: Buffer size must be a positive integer"

MsgSizeMaximum == "Invalid buffer size: Buffer size exceeds maximum allowed"

MsgSizeNumeric == "Invalid buffer size: Buffer size must be a numeric literal or constant variable"

\* const MAX_BUFFER_SIZE: 1 GB
MAX_BUFFER_SIZE == 1024 * 1024 * 1024

\* error_invalid_buffer_size: the message for the reason, without the name
\* and the example it is formatted with
error_invalid_buffer_size(buffer_name, reason) ==
    CASE reason = "positive" -> MsgSizePositive
      [] reason = "maximum" -> MsgSizeMaximum
      [] reason = "numeric" -> MsgSizeNumeric

\* check_not_keyword
check_not_keyword(token) == as_keyword(token) = <<>>

\* parse_typed_var_decl, Token::Buffer: the size expression is validated
BufferValidated(P, name, expr) ==
    CASE expr.k = "IntegerLit" ->
            IF expr.v <= 0 THEN Err(P, error_invalid_buffer_size(name, "positive"))
            ELSE IF expr.v > MAX_BUFFER_SIZE
                 THEN Err(P, error_invalid_buffer_size(name, "maximum"))
                 ELSE Ok(P, BufferDecl(name, expr))
      [] expr.k = "Identifier" -> Ok(P, BufferDecl(name, expr))
      [] OTHER -> Err(P, error_invalid_buffer_size(name, "numeric"))

BufferBytes(P, name, expr) ==
    IF ~At(P, {"In"}) THEN BufferValidated(P, name, expr)
    ELSE IF At(skip_noise(advance(P)), {"Size"})
         THEN BufferValidated(advance(skip_noise(advance(P))), name, expr)
         ELSE Err(skip_noise(advance(P)), MsgExpectedSize)

BufferClause(P, name, expr) ==
    IF At(P, {"Bytes"}) THEN BufferBytes(skip_noise(advance(P)), name, expr)
    ELSE Ok(P, VarDecl(name, Some("Buffer"), Some(expr)))

BufferIs(r, name) == IF r.ok THEN BufferClause(skip_noise(r.P), name, r.v) ELSE r

BufferSize(P, name) ==
    IF At(P, {"Is"}) THEN BufferIs(parse_primary(skip_noise(advance(P))), name)
    ELSE Ok(P, BufferDecl(name, IntegerLit(0)))

BufferName(P) ==
    IF ~check_not_keyword(current(P)) THEN Err(P, MsgReservedKeyword)
    ELSE CASE At(P, {"StringLiteral"}) ->
                 IF string_is_keyword(current(P).s) # <<>> THEN Err(P, MsgReservedBufferName)
                 ELSE BufferSize(skip_noise(advance(P)), current(P).s)
           [] At(P, {"Identifier"}) -> BufferSize(skip_noise(advance(P)), current(P).s)
           [] OTHER -> Err(P, MsgMissingName)

TypedBuffer(P) ==
    IF At(P, {"Called"}) THEN BufferName(skip_noise(advance(P))) ELSE Err(P, MsgMissingCalled)

\* parse_typed_var_decl, Token::Timer and Token::Time
TypedTimerName(P) ==
    IF At(P, {"StringLiteral", "Identifier"}) THEN Ok(advance(P), TimerDecl(current(P).s))
    ELSE Err(P, MsgMissingName)

TypedTimer(P) ==
    IF At(P, {"Called"}) THEN TypedTimerName(skip_noise(advance(P)))
    ELSE Err(P, MsgMissingCalled)

\* ... is <value>, or no value
DeclaredValue(r, name, var_type) ==
    IF r.ok THEN Ok(r.P, VarDecl(name, var_type, Some(r.v))) ELSE r

TypedValue(P, name, var_type) ==
    IF At(P, {"Is", "Equals"})
    THEN DeclaredValue(parse_expression(skip_noise(advance(P))), name, var_type)
    ELSE Ok(P, VarDecl(name, var_type, None))

TypedTimeName(P) ==
    IF At(P, {"StringLiteral", "Identifier"})
    THEN TypedValue(skip_noise(advance(P)), current(P).s, Some("Time"))
    ELSE Err(P, MsgMissingName)

TypedTime(P) ==
    IF At(P, {"Called"}) THEN TypedTimeName(skip_noise(advance(P)))
    ELSE Err(P, MsgMissingCalled)

\* parse_typed_var_decl, the other types: the name and the value
TypedName(P, var_type) ==
    IF ~check_not_keyword(current(P)) THEN Err(P, MsgReservedKeyword)
    ELSE CASE At(P, {"StringLiteral"}) ->
                 IF string_is_keyword(current(P).s) # <<>> THEN Err(P, MsgReservedKeyword)
                 ELSE TypedValue(skip_noise(advance(P)), current(P).s, var_type)
           [] At(P, {"Identifier"}) -> TypedValue(skip_noise(advance(P)), current(P).s, var_type)
           [] OTHER -> Err(P, MsgMissingName)

TypedCalled(P, var_type) == TypedName(skip_noise(expect(skip_noise(P), "Called")), var_type)

TypedAt(P) ==
    CASE At(P, {"Number", "Int"}) -> TypedCalled(advance(P), Some("Integer"))
      [] At(P, {"Float"}) -> TypedCalled(advance(P), Some("Float"))
      [] At(P, {"Text"}) -> TypedCalled(advance(P), Some("String"))
      [] At(P, {"Boolean"}) -> TypedCalled(advance(P), Some("Boolean"))
      [] At(P, {"List"}) -> TypedCalled(advance(P), Some("List"))
      [] At(P, {"Buffer"}) -> TypedBuffer(skip_noise(advance(P)))
      [] At(P, {"Timer"}) -> TypedTimer(skip_noise(advance(P)))
      [] At(P, {"Time"}) -> TypedTime(skip_noise(advance(P)))
      [] OTHER -> TypedCalled(P, None)

parse_typed_var_decl(P) == TypedAt(skip_noise(advance(P)))

\* parse_var_decl: Set / Create [the / a / an] [<type>] [called] <name> ...
VarDeclValue(P, name, var_type) ==
    IF At(P, {"To", "Equals", "Is"})
    THEN DeclaredValue(parse_expression(skip_noise(advance(P))), name, var_type)
    ELSE IF At(P, {"Period", "Comma", "EOF", "ParagraphBreak"})
    THEN Ok(P, VarDecl(name, var_type, None))
    ELSE DeclaredValue(parse_expression(P), name, var_type)

\* Create a buffer called <name> with / of size <size>
SizedBuffer(r, name) == IF r.ok THEN Ok(r.P, BufferDecl(name, r.v)) ELSE r

VarDeclNamed(P, name, var_type) ==
    IF var_type # Some("Buffer") THEN VarDeclValue(P, name, var_type)
    ELSE IF At(P, {"With", "Of"})
    THEN SizedBuffer(parse_primary(skip_noise(expect(skip_noise(advance(P)), "Size"))), name)
    ELSE Ok(P, BufferDecl(name, IntegerLit(0)))

VarDeclCalled(P, var_type) ==
    IF ~check_not_keyword(current(P)) THEN Err(P, MsgReservedKeyword)
    ELSE CASE At(P, {"Identifier"}) -> VarDeclNamed(skip_noise(advance(P)), current(P).s, var_type)
           [] At(P, {"StringLiteral"}) ->
                 IF string_is_keyword(current(P).s) # <<>> THEN Err(P, MsgReservedKeyword)
                 ELSE VarDeclNamed(skip_noise(advance(P)), current(P).s, var_type)
           [] OTHER -> Err(P, MsgMissingName)

VarDeclName(P, var_type) ==
    IF At(P, {"Called"}) THEN VarDeclCalled(skip_noise(advance(P)), var_type)
    ELSE IF ~check_not_keyword(current(P)) THEN Err(P, MsgReservedKeyword)
    ELSE IF At(P, {"Identifier"}) THEN VarDeclNamed(skip_noise(advance(P)), current(P).s, var_type)
    ELSE Err(P, MsgExpectedVariableName)

VarDeclType(P) ==
    CASE At(P, {"Timer"}) -> TypedTimer(skip_noise(advance(P)))
      [] At(P, {"Number"}) -> VarDeclName(skip_noise(advance(P)), Some("Integer"))
      [] At(P, {"Text"}) -> VarDeclName(skip_noise(advance(P)), Some("String"))
      [] At(P, {"Boolean"}) -> VarDeclName(skip_noise(advance(P)), Some("Boolean"))
      [] At(P, {"Buffer"}) -> VarDeclName(skip_noise(advance(P)), Some("Buffer"))
      [] OTHER -> VarDeclName(P, None)

VarDeclAt(P) ==
    IF At(P, {"Byte", "Element"}) THEN Err(P, OutsideModel)
    ELSE VarDeclType(IF At(P, {"The", "A", "An"}) THEN skip_noise(advance(P)) ELSE P)

parse_var_decl(P) == VarDeclAt(skip_noise(advance(P)))

\* parse_file_write
FileWrite(file, value) == [k |-> "FileWrite", file |-> file, value |-> value]

FileWriteNewline(file) == [k |-> "FileWriteNewline", file |-> file]

MsgExpectedFileName == "Expected file name after 'to'"

MsgExpectedIdentifierAfterThe == "Expected identifier after 'the'"

MsgExpectedValueToWrite == "Expected value to write"

MsgExpectedAfterTreating == "Expected string or identifier after 'treating'"

MsgExpectedAfterAs == "Expected string or identifier after 'as'"

\* The messages of err_expected, without the token that ends them
MsgExpectedToAfterValue == "Expected 'to' after value, got"

MsgExpectedFileNameGot == "Expected file name after 'to', got"

s_File == <<"F", "i", "l", "e">>

s_newline == <<"n", "e", "w", "l", "i", "n", "e">>

s_as == <<"a", "s">>

\* The expression of a string or an identifier token
SimpleExpr(token) ==
    IF token.t = "StringLiteral" THEN StringLit(token.s) ELSE Identifier(token.s)

WriteFileName(P, value) ==
    CASE At(P, {"Identifier", "StringLiteral"}) -> Ok(advance(P), FileWrite(current(P).s, value))
      [] At(P, {"File"}) -> Ok(advance(P), FileWrite(s_File, value))
      [] OTHER -> Err(P, MsgExpectedFileNameGot)

WriteTo(P, value) ==
    IF At(P, {"To"}) THEN WriteFileName(skip_noise(advance(P)), value)
    ELSE Err(P, MsgExpectedToAfterValue)

WriteReplacement(P, value, match_value) ==
    IF At(P, {"StringLiteral", "Identifier"})
    THEN WriteTo(skip_noise(advance(P)), TreatingAs(value, match_value, SimpleExpr(current(P))))
    ELSE Err(P, MsgExpectedAfterAs)

WriteAs(P, value, match_value) ==
    WriteReplacement(IF \/ At(P, {"As"})
                        \/ (At(P, {"Identifier"}) /\ to_lowercase(current(P).s) = s_as)
                     THEN skip_noise(advance(P)) ELSE P,
                     value, match_value)

WriteMatch(P, value) ==
    IF At(P, {"StringLiteral", "Identifier"})
    THEN WriteAs(skip_noise(advance(P)), value, SimpleExpr(current(P)))
    ELSE Err(P, MsgExpectedAfterTreating)

WriteTreating(P, value) ==
    IF At(P, {"Treating"}) THEN WriteMatch(skip_noise(advance(P)), value)
    ELSE WriteTo(P, value)

WriteThe(P) ==
    IF At(P, {"Identifier"})
    THEN WriteTreating(skip_noise(advance(P)), Identifier(current(P).s))
    ELSE Err(P, MsgExpectedIdentifierAfterThe)

WriteValue(P) ==
    CASE At(P, {"StringLiteral", "Identifier"}) ->
            WriteTreating(skip_noise(advance(P)), SimpleExpr(current(P)))
      [] At(P, {"The"}) -> WriteThe(skip_noise(advance(P)))
      [] OTHER -> Err(P, MsgExpectedValueToWrite)

WriteNewlineFile(P) ==
    CASE At(P, {"Identifier", "StringLiteral"}) -> Ok(advance(P), FileWriteNewline(current(P).s))
      [] At(P, {"File"}) -> Ok(advance(P), FileWriteNewline(s_File))
      [] OTHER -> Err(P, MsgExpectedFileName)

\* After a: newline to <file>, or the value to write
WriteA(P) ==
    IF At(P, {"Identifier"}) /\ to_lowercase(current(P).s) = s_newline
    THEN WriteNewlineFile(skip_noise(expect(skip_noise(advance(P)), "To")))
    ELSE WriteValue(P)

WriteAt(P) == IF At(P, {"A"}) THEN WriteA(skip_noise(advance(P))) ELSE WriteValue(P)

parse_file_write(P) == WriteAt(skip_noise(advance(P)))

\* parse_statement, for the statements of the model
StatementAt(P) ==
    CASE At(P, {"Print"}) -> parse_print(P)
      [] At(P, {"Set", "Create"}) -> parse_var_decl(P)
      [] At(P, {"A", "An"}) -> parse_typed_var_decl(P)
      [] At(P, {"If", "When"}) -> parse_if(P)
      [] At(P, {"While"}) -> parse_while(P)
      [] At(P, {"For"}) -> parse_for(P)
      [] At(P, {"Repeat"}) -> parse_repeat(P)
      [] At(P, {"Return"}) -> parse_return(P)
      [] At(P, {"Break"}) -> Ok(advance(P), Break)
      [] At(P, {"Continue"}) -> Ok(advance(P), Continue)
      [] At(P, {"To"}) -> parse_function_def(P)
      [] At(P, {"Write"}) -> parse_file_write(P)
      [] At(P, {"Identifier"}) ->
            IF current(P).s = <<"s", "t", "a", "r", "t">> THEN Err(P, OutsideModel)
            ELSE parse_identifier_statement(P)
      [] At(P, {"Then", "Else", "But", "Otherwise", "Times", "And", "Or", "Of", "Each",
                "From", "Treating", "As", "Is", "Called", "Bytes", "Minus", "IntegerLiteral",
                "Period", "Comma", "File", "EOF"}) -> Err(P, MsgExpectedStatement)
      [] OTHER -> Err(P, OutsideModel)

parse_statement(P) == StatementAt(skip_all_whitespace(P))

\* ------------------------------------------------------------------ parse

\* The Parser on the tokens of a text, with the locals of parse: the statements
\* parsed so far, the error parse returned, and whether it has returned.  The
\* suggestion is the one the error carries.  The text is kept as the sentences it was written as: the tokens of each and the
\* tokens that end it.
ParserOn(text, tokens) ==
    [tokens |-> tokens, pos |-> 0, statements |-> <<>>, error |-> None, suggestion |-> None,
     done |-> FALSE, text |-> text]

\* The tokens of the sentences of a text
RECURSIVE TokensOf(_)
TokensOf(text) ==
    IF text = <<>> THEN <<EOF>>
    ELSE Head(text).sentence \o Head(text).end \o TokensOf(Tail(text))

ParserOnText(text) == ParserOn(text, TokensOf(text))

\* #[derive(Debug)] for Token: the variants without a value are written as
\* their names
VariantNames ==
    {
     <<"Print", <<"P", "r", "i", "n", "t">>>>,
     <<"Set", <<"S", "e", "t">>>>,
     <<"Create", <<"C", "r", "e", "a", "t", "e">>>>,
     <<"Add", <<"A", "d", "d">>>>,
     <<"Subtract", <<"S", "u", "b", "t", "r", "a", "c", "t">>>>,
     <<"Multiply", <<"M", "u", "l", "t", "i", "p", "l", "y">>>>,
     <<"Divide", <<"D", "i", "v", "i", "d", "e">>>>,
     <<"Increment", <<"I", "n", "c", "r", "e", "m", "e", "n", "t">>>>,
     <<"Decrement", <<"D", "e", "c", "r", "e", "m", "e", "n", "t">>>>,
     <<"Call", <<"C", "a", "l", "l">>>>,
     <<"Allocate", <<"A", "l", "l", "o", "c", "a", "t", "e">>>>,
     <<"Free", <<"F", "r", "e", "e">>>>,
     <<"Open", <<"O", "p", "e", "n">>>>,
     <<"Read", <<"R", "e", "a", "d">>>>,
     <<"Write", <<"W", "r", "i", "t", "e">>>>,
     <<"Close", <<"C", "l", "o", "s", "e">>>>,
     <<"Delete", <<"D", "e", "l", "e", "t", "e">>>>,
     <<"Exists", <<"E", "x", "i", "s", "t", "s">>>>,
     <<"Resize", <<"R", "e", "s", "i", "z", "e">>>>,
     <<"If", <<"I", "f">>>>,
     <<"When", <<"W", "h", "e", "n">>>>,
     <<"Then", <<"T", "h", "e", "n">>>>,
     <<"Else", <<"E", "l", "s", "e">>>>,
     <<"But", <<"B", "u", "t">>>>,
     <<"Otherwise", <<"O", "t", "h", "e", "r", "w", "i", "s", "e">>>>,
     <<"While", <<"W", "h", "i", "l", "e">>>>,
     <<"Until", <<"U", "n", "t", "i", "l">>>>,
     <<"For", <<"F", "o", "r">>>>,
     <<"Each", <<"E", "a", "c", "h">>>>,
     <<"Every", <<"E", "v", "e", "r", "y">>>>,
     <<"Loop", <<"L", "o", "o", "p">>>>,
     <<"Repeat", <<"R", "e", "p", "e", "a", "t">>>>,
     <<"Times", <<"T", "i", "m", "e", "s">>>>,
     <<"Break", <<"B", "r", "e", "a", "k">>>>,
     <<"Continue", <<"C", "o", "n", "t", "i", "n", "u", "e">>>>,
     <<"Return", <<"R", "e", "t", "u", "r", "n">>>>,
     <<"Exit", <<"E", "x", "i", "t">>>>,
     <<"With", <<"W", "i", "t", "h">>>>,
     <<"Called", <<"C", "a", "l", "l", "e", "d">>>>,
     <<"Modulo", <<"M", "o", "d", "u", "l", "o">>>>,
     <<"Is", <<"I", "s">>>>,
     <<"Are", <<"A", "r", "e">>>>,
     <<"Equals", <<"E", "q", "u", "a", "l", "s">>>>,
     <<"Equal", <<"E", "q", "u", "a", "l">>>>,
     <<"Greater", <<"G", "r", "e", "a", "t", "e", "r">>>>,
     <<"Less", <<"L", "e", "s", "s">>>>,
     <<"Than", <<"T", "h", "a", "n">>>>,
     <<"Not", <<"N", "o", "t">>>>,
     <<"And", <<"A", "n", "d">>>>,
     <<"Or", <<"O", "r">>>>,
     <<"From", <<"F", "r", "o", "m">>>>,
     <<"To", <<"T", "o">>>>,
     <<"Between", <<"B", "e", "t", "w", "e", "e", "n">>>>,
     <<"Through", <<"T", "h", "r", "o", "u", "g", "h">>>>,
     <<"In", <<"I", "n">>>>,
     <<"Of", <<"O", "f">>>>,
     <<"On", <<"O", "n">>>>,
     <<"The", <<"T", "h", "e">>>>,
     <<"A", <<"A">>>>,
     <<"An", <<"A", "n">>>>,
     <<"All", <<"A", "l", "l">>>>,
     <<"By", <<"B", "y">>>>,
     <<"Treating", <<"T", "r", "e", "a", "t", "i", "n", "g">>>>,
     <<"Number", <<"N", "u", "m", "b", "e", "r">>>>,
     <<"Float", <<"F", "l", "o", "a", "t">>>>,
     <<"Int", <<"I", "n", "t">>>>,
     <<"Text", <<"T", "e", "x", "t">>>>,
     <<"Boolean", <<"B", "o", "o", "l", "e", "a", "n">>>>,
     <<"List", <<"L", "i", "s", "t">>>>,
     <<"True", <<"T", "r", "u", "e">>>>,
     <<"False", <<"F", "a", "l", "s", "e">>>>,
     <<"Buffer", <<"B", "u", "f", "f", "e", "r">>>>,
     <<"File", <<"F", "i", "l", "e">>>>,
     <<"Bytes", <<"B", "y", "t", "e", "s">>>>,
     <<"Size", <<"S", "i", "z", "e">>>>,
     <<"Into", <<"I", "n", "t", "o">>>>,
     <<"Reading", <<"R", "e", "a", "d", "i", "n", "g">>>>,
     <<"Writing", <<"W", "r", "i", "t", "i", "n", "g">>>>,
     <<"Appending", <<"A", "p", "p", "e", "n", "d", "i", "n", "g">>>>,
     <<"Standard", <<"S", "t", "a", "n", "d", "a", "r", "d">>>>,
     <<"Input", <<"I", "n", "p", "u", "t">>>>,
     <<"Even", <<"E", "v", "e", "n">>>>,
     <<"Odd", <<"O", "d", "d">>>>,
     <<"Positive", <<"P", "o", "s", "i", "t", "i", "v", "e">>>>,
     <<"Negative", <<"N", "e", "g", "a", "t", "i", "v", "e">>>>,
     <<"Zero", <<"Z", "e", "r", "o">>>>,
     <<"Empty", <<"E", "m", "p", "t", "y">>>>,
     <<"Apostrophe", <<"A", "p", "o", "s", "t", "r", "o", "p", "h", "e">>>>,
     <<"Capacity", <<"C", "a", "p", "a", "c", "i", "t", "y">>>>,
     <<"Descriptor", <<"D", "e", "s", "c", "r", "i", "p", "t", "o", "r">>>>,
     <<"Modified", <<"M", "o", "d", "i", "f", "i", "e", "d">>>>,
     <<"Accessed", <<"A", "c", "c", "e", "s", "s", "e", "d">>>>,
     <<"Permissions", <<"P", "e", "r", "m", "i", "s", "s", "i", "o", "n", "s">>>>,
     <<"Readable", <<"R", "e", "a", "d", "a", "b", "l", "e">>>>,
     <<"Writable", <<"W", "r", "i", "t", "a", "b", "l", "e">>>>,
     <<"Full", <<"F", "u", "l", "l">>>>,
     <<"First", <<"F", "i", "r", "s", "t">>>>,
     <<"Last", <<"L", "a", "s", "t">>>>,
     <<"Absolute", <<"A", "b", "s", "o", "l", "u", "t", "e">>>>,
     <<"Sign", <<"S", "i", "g", "n">>>>,
     <<"Error", <<"E", "r", "r", "o", "r">>>>,
     <<"Stderr", <<"S", "t", "d", "e", "r", "r">>>>,
     <<"Auto", <<"A", "u", "t", "o">>>>,
     <<"Catching", <<"C", "a", "t", "c", "h", "i", "n", "g">>>>,
     <<"Enable", <<"E", "n", "a", "b", "l", "e">>>>,
     <<"Disable", <<"D", "i", "s", "a", "b", "l", "e">>>>,
     <<"See", <<"S", "e", "e">>>>,
     <<"Library", <<"L", "i", "b", "r", "a", "r", "y">>>>,
     <<"Version", <<"V", "e", "r", "s", "i", "o", "n">>>>,
     <<"Argument", <<"A", "r", "g", "u", "m", "e", "n", "t">>>>,
     <<"Arguments", <<"A", "r", "g", "u", "m", "e", "n", "t", "s">>>>,
     <<"Environment", <<"E", "n", "v", "i", "r", "o", "n", "m", "e", "n", "t">>>>,
     <<"Variable", <<"V", "a", "r", "i", "a", "b", "l", "e">>>>,
     <<"Count", <<"C", "o", "u", "n", "t">>>>,
     <<"Wait", <<"W", "a", "i", "t">>>>,
     <<"Sleep", <<"S", "l", "e", "e", "p">>>>,
     <<"Timer", <<"T", "i", "m", "e", "r">>>>,
     <<"Stop", <<"S", "t", "o", "p">>>>,
     <<"Begin", <<"B", "e", "g", "i", "n">>>>,
     <<"Finish", <<"F", "i", "n", "i", "s", "h">>>>,
     <<"Get", <<"G", "e", "t">>>>,
     <<"Current", <<"C", "u", "r", "r", "e", "n", "t">>>>,
     <<"Time", <<"T", "i", "m", "e">>>>,
     <<"Second", <<"S", "e", "c", "o", "n", "d">>>>,
     <<"Seconds", <<"S", "e", "c", "o", "n", "d", "s">>>>,
     <<"Millisecond", <<"M", "i", "l", "l", "i", "s", "e", "c", "o", "n", "d">>>>,
     <<"Milliseconds", <<"M", "i", "l", "l", "i", "s", "e", "c", "o", "n", "d", "s">>>>,
     <<"Duration", <<"D", "u", "r", "a", "t", "i", "o", "n">>>>,
     <<"Elapsed", <<"E", "l", "a", "p", "s", "e", "d">>>>,
     <<"Hour", <<"H", "o", "u", "r">>>>,
     <<"Minute", <<"M", "i", "n", "u", "t", "e">>>>,
     <<"Day", <<"D", "a", "y">>>>,
     <<"Month", <<"M", "o", "n", "t", "h">>>>,
     <<"Year", <<"Y", "e", "a", "r">>>>,
     <<"Unix", <<"U", "n", "i", "x">>>>,
     <<"Running", <<"R", "u", "n", "n", "i", "n", "g">>>>,
     <<"As", <<"A", "s">>>>,
     <<"BitAnd", <<"B", "i", "t", "A", "n", "d">>>>,
     <<"BitOr", <<"B", "i", "t", "O", "r">>>>,
     <<"BitXor", <<"B", "i", "t", "X", "o", "r">>>>,
     <<"BitNot", <<"B", "i", "t", "N", "o", "t">>>>,
     <<"BitShiftLeft", <<"B", "i", "t", "S", "h", "i", "f", "t", "L", "e", "f", "t">>>>,
     <<"BitShiftRight", <<"B", "i", "t", "S", "h", "i", "f", "t", "R", "i", "g", "h", "t">>>>,
     <<"Byte", <<"B", "y", "t", "e">>>>,
     <<"Element", <<"E", "l", "e", "m", "e", "n", "t">>>>,
     <<"Without", <<"W", "i", "t", "h", "o", "u", "t">>>>,
     <<"Period", <<"P", "e", "r", "i", "o", "d">>>>,
     <<"Comma", <<"C", "o", "m", "m", "a">>>>,
     <<"Colon", <<"C", "o", "l", "o", "n">>>>,
     <<"OpenBracket", <<"O", "p", "e", "n", "B", "r", "a", "c", "k", "e", "t">>>>,
     <<"CloseBracket", <<"C", "l", "o", "s", "e", "B", "r", "a", "c", "k", "e", "t">>>>,
     <<"Minus", <<"M", "i", "n", "u", "s">>>>,
     <<"Newline", <<"N", "e", "w", "l", "i", "n", "e">>>>,
     <<"ParagraphBreak", <<"P", "a", "r", "a", "g", "r", "a", "p", "h", "B", "r", "e", "a", "k">>>>,
     <<"EOF", <<"E", "O", "F">>>>
    }

VariantText == [name \in {pair[1] : pair \in VariantNames} |->
                   (CHOOSE pair \in VariantNames : pair[1] = name)[2]]

\* <str as Debug>::fmt on the characters of the model: quotes and backslashes
\* are escaped, a newline is written \n
RECURSIVE escape_debug(_)
escape_debug(s) ==
    IF s = <<>> THEN <<>>
    ELSE (CASE Head(s) \in {"\"", "\\"} -> <<"\\", Head(s)>>
            [] Head(s) = "\n" -> <<"\\", "n">>
            [] OTHER -> <<Head(s)>>) \o escape_debug(Tail(s))

\* <f64 as Debug>::fmt for the floats of the lexer
FloatText(x) ==
    Decimal(x[1] \div (10 ^ x[2])) \o <<".">>
    \o (IF x[2] = 0 THEN <<"0">> ELSE Tail(Decimal((10 ^ x[2]) + (x[1] % (10 ^ x[2])))))

\* format!("{:?}", token)
fmt_debug(token) ==
    CASE token.t = "Identifier" ->
            <<"I","d","e","n","t","i","f","i","e","r","(","\"">> \o escape_debug(token.s)
            \o <<"\"", ")">>
      [] token.t = "StringLiteral" ->
            <<"S","t","r","i","n","g","L","i","t","e","r","a","l","(","\"">>
            \o escape_debug(token.s) \o <<"\"", ")">>
      [] token.t = "IntegerLiteral" ->
            <<"I","n","t","e","g","e","r","L","i","t","e","r","a","l","(">>
            \o Decimal(token.n) \o <<")">>
      [] token.t = "FloatLiteral" ->
            <<"F","l","o","a","t","L","i","t","e","r","a","l","(">> \o FloatText(token.x)
            \o <<")">>
      [] OTHER -> VariantText[token.t]

\* make_error_with_suggestion: the suggestion of the error it makes
make_error_with_suggestion(message, got) == find_similar_keyword(got, ENGLISH_KEYWORDS)

\* err_expected: the suggestion of the error it makes
err_expected(expected, got) == make_error_with_suggestion(expected, fmt_debug(got))

\* The messages of the errors err_expected makes; every other error of the
\* parser is made by err, without a suggestion
ExpectedMessages == {MsgExpectedStatement, MsgExpectedToAfterValue, MsgExpectedFileNameGot}

\* The suggestion of the error a parse function returned with the parser at P
ErrorSuggestion(P, message) ==
    IF message \in ExpectedMessages THEN err_expected(message, current(P)) ELSE None

\* parse, after a statement: all but function definitions skip newlines and
\* take a period; then newlines and paragraph breaks are skipped
AfterStatement(P, is_func_def) ==
    skip_all_whitespace(IF is_func_def THEN P ELSE expect(skip_noise(P), "Period"))

StatementParsed(r) ==
    IF r.ok
    THEN [AfterStatement(r.P, r.v.k = "FunctionDef") EXCEPT !.statements = Append(@, r.v)]
    ELSE [r.P EXCEPT !.error = Some(r.v), !.suggestion = ErrorSuggestion(r.P, r.v),
                     !.done = TRUE]

\* The statement a sentence is parsed to when it is the whole text
StatementOf(sentence) == parse_statement(NewParser(sentence \o <<EOF>>)).v

\* ------------------------------------------------------------------- texts

s_a == <<"a">>

s_b == <<"b">>

\* A sentence and the tokens that end it
Sentence(sentence, end) == [sentence |-> sentence, end |-> end]

\* Print "<s>"
PrintOf(s) == <<Tok("Print"), StringLiteral(s)>>

\* The ends of a sentence that another follows in the same paragraph
PeriodEnds == {<<Tok("Period")>>, <<Tok("Period"), Tok("Newline")>>}

\* The ends of the last sentence of a text
LastEnds == {<<Tok("Period")>>, <<Tok("Period"), Tok("Newline")>>}

\* The actions of the model's bodies, for the string they print
Actions(s) == {PrintOf(s), <<Tok("Print"), IdentifierToken(s)>>, <<Tok("Break")>>}

ConditionTokens == {<<IdentifierToken(s_debug)>>, <<StringLiteral(s_verbose)>>}

\* If <condition> then, <action>   and   Repeat <count> times, <action>
IfSentences(s) ==
    {<<Tok("If")>> \o condition \o <<Tok("Then"), Tok("Comma")>> \o action :
        condition \in ConditionTokens, action \in Actions(s)}

RepeatSentences(s) ==
    {<<Tok("Repeat")>> \o count \o <<Tok("Times"), Tok("Comma")>> \o action :
        count \in {<<IntegerLiteral(2)>>, <<IdentifierToken(s_total)>>},
        action \in Actions(s)}

\* An if-statement or a repeat-statement, a period, and another sentence
PeriodTexts ==
    {<<Sentence(first, end), Sentence(second, last)>> :
        first \in IfSentences(s_a) \cup RepeatSentences(s_a), end \in PeriodEnds,
        second \in {PrintOf(s_b), <<Tok("Continue")>>, <<IdentifierToken(s_total)>>},
        last \in LastEnds}

s_c == <<"c">>

\* The ends of the last sentence of a paragraph that another paragraph follows,
\* with and without a period
ParagraphEnds == {<<Tok("Period"), Tok("ParagraphBreak")>>, <<Tok("ParagraphBreak")>>}

\* To "<name>"   and   To "<name>" of total
Signatures(name) ==
    {<<Tok("To"), StringLiteral(name)>>,
     <<Tok("To"), StringLiteral(name), Tok("Of"), IdentifierToken(s_total)>>}

\* The sentences of a function body that print the string: a print, an
\* if-statement, a repeat-statement, a while-statement and the signature of
\* another function with a print
BodySentences(s) ==
    {PrintOf(s),
     <<Tok("If"), IdentifierToken(s_debug), Tok("Then"), Tok("Comma")>> \o PrintOf(s),
     <<Tok("Repeat"), IntegerLiteral(2), Tok("Times"), Tok("Comma")>> \o PrintOf(s),
     <<Tok("While"), IdentifierToken(s_debug), Tok("Comma")>> \o PrintOf(s),
     <<Tok("To"), StringLiteral(s_pick), Tok("Period")>> \o PrintOf(s)}

\* A function of one or two sentences, a paragraph break, and a print
FunctionTexts ==
    {<<Sentence(signature, end)>> \o body \o <<Sentence(PrintOf(s_c), <<Tok("Period")>>)>> :
        signature \in Signatures(s_make), end \in PeriodEnds,
        body \in {<<Sentence(only, last)>> :
                     only \in BodySentences(s_a), last \in ParagraphEnds}
                 \cup {<<Sentence(first, to), Sentence(second, last)>> :
                          first \in BodySentences(s_a), to \in PeriodEnds,
                          second \in BodySentences(s_b), last \in ParagraphEnds}}

\* The values a print is given: a string, a variable, a number
PrintValues(s) == {<<StringLiteral(s)>>, <<IdentifierToken(s_total)>>, <<IntegerLiteral(1)>>}

\* The call of a function with an argument, as the value of a print
PrintedCall == <<StringLiteral(s_make), Tok("Of"), IdentifierToken(s_total)>>

\* The conditional clauses of a print: none, but if, and but if with otherwise
PrintClauses ==
    {<<>>,
     <<Tok("Comma"), Tok("But"), Tok("If"), IdentifierToken(s_debug), Tok("Print"),
       StringLiteral(s_b)>>,
     <<Tok("But"), Tok("If"), IdentifierToken(s_debug), StringLiteral(s_b)>>,
     <<Tok("Comma"), Tok("If"), IdentifierToken(s_debug), Tok("Print"), StringLiteral(s_b),
       Tok("Comma"), Tok("Otherwise"), Tok("Print"), StringLiteral(s_c)>>,
     <<Tok("Comma"), Tok("But"), Tok("If"), IdentifierToken(s_debug), Tok("Print"),
       StringLiteral(s_b), Tok("Comma"), Tok("But"), Tok("If"), StringLiteral(s_verbose),
       Tok("Print"), IdentifierToken(s_level)>>}

\* The start of a construct whose body is a list of actions
BodyStarts ==
    {<<Tok("While"), IdentifierToken(s_debug), Tok("Comma")>>,
     <<Tok("If"), IdentifierToken(s_debug), Tok("Then"), Tok("Comma")>>,
     <<Tok("On"), Tok("Error"), Tok("Comma")>>}

\* A print in the body of a construct, a comma, and the next action of the
\* body: the start of the construct, the print, and the action
PrintTexts ==
    {<<Sentence(start, <<>>), Sentence(<<Tok("Print")>> \o print, <<Tok("Comma")>>),
       Sentence(next, <<Tok("Period")>>)>> :
        start \in BodyStarts,
        print \in {value \o clauses : value \in PrintValues(s_a), clauses \in PrintClauses}
                  \cup {PrintedCall},
        next \in {PrintOf(s_c), <<Tok("Break")>>, <<Tok("Continue")>>}}


s_item == <<"i", "t", "e", "m">>

\* The treating clause of a loop: none, of strings, of identifiers
TreatingClauses ==
    {<<>>,
     <<Tok("Treating"), StringLiteral(s_a), Tok("As"), StringLiteral(s_b)>>,
     <<Tok("Treating"), IdentifierToken(s_debug), Tok("As"), IdentifierToken(s_total)>>}

\* The actions of a loop's body that refer to the loop variable item, and one
\* that does not
LoopActions ==
    {<<Tok("Print"), IdentifierToken(s_item)>>,
     PrintOf(s_a),
     <<Tok("Print"), Tok("Minus"), IdentifierToken(s_item)>>,
     <<Tok("Print"), StringLiteral(s_make), Tok("Of"), IdentifierToken(s_item)>>,
     <<IdentifierToken(s_total), Tok("Is"), IdentifierToken(s_item)>>,
     <<Tok("If"), IdentifierToken(s_item), Tok("Then"), Tok("Comma"), Tok("Print"),
       IdentifierToken(s_item)>>,
     <<Tok("If"), IdentifierToken(s_debug), Tok("And"), IdentifierToken(s_item), Tok("Then"),
       Tok("Comma"), Tok("Print"), IdentifierToken(s_item)>>,
     <<Tok("While"), IdentifierToken(s_item), Tok("Comma"), Tok("Print"),
       IdentifierToken(s_item)>>,
     <<Tok("Repeat"), IdentifierToken(s_item), Tok("Times"), Tok("Comma"), Tok("Print"),
       StringLiteral(s_a)>>,
     <<Tok("Return"), IdentifierToken(s_item)>>}

\* The bodies: an action, or a print and an action after a comma
LoopBodies == LoopActions \cup {PrintOf(s_b) \o <<Tok("Comma")>> \o action : action \in LoopActions}

\* For each item from items [treating ..], <body>
ForSentences ==
    {<<Tok("For"), Tok("Each"), IdentifierToken(s_item), Tok("From"), IdentifierToken(s_items)>>
        \o clause \o <<Tok("Comma")>> \o body :
        clause \in TreatingClauses, body \in LoopBodies}

\* Print each item from items [treating ..][, <body>]   and with but if
PrintEachSentences ==
    {<<Tok("Print"), Tok("Each"), IdentifierToken(s_item), Tok("From"), IdentifierToken(s_items)>>
        \o clause \o rest :
        clause \in TreatingClauses,
        rest \in {<<>>,
                  <<Tok("Comma"), Tok("But"), Tok("If"), IdentifierToken(s_debug), Tok("Print"),
                    IdentifierToken(s_item)>>}
                 \cup {<<Tok("Comma")>> \o body : body \in LoopBodies}}

LoopTexts ==
    {<<Sentence(sentence, <<Tok("Period")>>)>> : sentence \in ForSentences \cup PrintEachSentences}

s_buf == <<"b", "u", "f">>

\* The sizes a buffer declaration states: good ones, zero, beyond the limit,
\* negative, a float, a string, and a variable
GoodSizes == {<<IntegerLiteral(1)>>, <<IntegerLiteral(10)>>, <<IntegerLiteral(MAX_BUFFER_SIZE)>>}

BadSizes ==
    {<<IntegerLiteral(0)>>, <<IntegerLiteral(MAX_BUFFER_SIZE + 1)>>,
     <<Tok("Minus"), IntegerLiteral(1)>>, <<Tok("Minus"), IntegerLiteral(100)>>,
     <<FloatLiteral(<<15, 1>>)>>, <<StringLiteral(s_a)>>}

Sizes == GoodSizes \cup BadSizes \cup {<<IdentifierToken(s_total)>>}

BufferNames == {<<StringLiteral(s_buf)>>, <<IdentifierToken(s_buf)>>}

\* a / an buffer called <name> is <size> bytes [in size]
TypedBufferSentences(size) ==
    {article \o <<Tok("Buffer"), Tok("Called")>> \o name \o <<Tok("Is")>> \o size \o suffix :
        article \in {<<Tok("A")>>, <<Tok("An")>>}, name \in BufferNames,
        suffix \in {<<Tok("Bytes")>>, <<Tok("Bytes"), Tok("In"), Tok("Size")>>}}

\* Create / Set [a / the] buffer called <name> with / of size <size>
CreateBufferSentences(size) ==
    {verb \o article \o <<Tok("Buffer"), Tok("Called")>> \o name \o with \o <<Tok("Size")>>
        \o size :
        verb \in {<<Tok("Create")>>, <<Tok("Set")>>},
        article \in {<<Tok("A")>>, <<Tok("The")>>, <<>>}, name \in BufferNames,
        with \in {<<Tok("With")>>, <<Tok("Of")>>}}

BufferSentences(size) == TypedBufferSentences(size) \cup CreateBufferSentences(size)

BufferTexts ==
    {<<Sentence(sentence, <<Tok("Period")>>)>> :
        sentence \in UNION {BufferSentences(size) : size \in Sizes}}

\* Write <value> <word> <file>, the word being to, or an identifier that is a
\* misspelling of a keyword, or another identifier
WriteWords ==
    {<<"t","o","o">>, <<"t","p">>, <<"t","o","e">>, <<"t","w","o">>, <<"i","n","t","u">>,
     <<"i","n","t","o","o">>, <<"w","i","t","h","e">>, <<"p","r","n","t">>, <<"x">>,
     <<"z","z","z","z">>}

WriteSentences ==
    {<<Tok("Write")>> \o value \o word \o file :
        value \in {<<StringLiteral(s_a)>>, <<IdentifierToken(s_total)>>,
                   <<Tok("The"), IdentifierToken(s_total)>>,
                   <<StringLiteral(s_a), Tok("Treating"), StringLiteral(s_b), Tok("As"),
                     StringLiteral(s_c)>>},
        word \in {<<Tok("To")>>, <<>>} \cup {<<IdentifierToken(w)>> : w \in WriteWords},
        file \in {<<StringLiteral(s_path)>>, <<Tok("File")>>, <<>>}}
    \cup {<<Tok("Write"), Tok("A"), IdentifierToken(s_newline)>> \o word \o file :
             word \in {<<Tok("To")>>, <<>>},
             file \in {<<StringLiteral(s_path)>>, <<Tok("File")>>, <<>>}}

\* A sentence that starts with a token no statement starts with
StrayTokens == {Tok("Then"), Tok("Comma"), Tok("Of"), IntegerLiteral(1)}

StraySentences == {<<token>> \o PrintOf(s_a) : token \in StrayTokens}

WriteTexts ==
    {<<Sentence(sentence, <<Tok("Period")>>)>> : sentence \in WriteSentences \cup StraySentences}


\* --------------------------------------------------- programs with flags

\* a flag called "<name>" is "-v" or "--verbose", it is a boolean
FlagSchemaDecl(name) ==
    [k |-> "FlagSchemaDecl", name |-> name, short |-> <<"-", "v">>,
     long |-> <<"-", "-", "v">>, value_type |-> "Boolean", required |-> FALSE,
     default |-> None]

ParseFlags == [k |-> "ParseFlags"]

Increment(name) == [k |-> "Increment", name |-> name]

Decrement(name) == [k |-> "Decrement", name |-> name]

Free(name) == [k |-> "Free", name |-> name]

\* Statements that refer to the variable: in the expression they print,
\* declare, assign, test, count, return, exit with, size or pass, and as the
\* variable they assign to, increment, decrement or free
StatementsReferring(name) ==
    {PrintStmt(Identifier(name)),
     PrintVar(name),
     PrintStmt(BinaryOp(IntegerLit(1), "Add", Identifier(name))),
     PrintStmt(UnaryOp("Not", Identifier(name))),
     VarDecl(s_total, Some("Integer"), Some(Identifier(name))),
     Assignment(s_total, Identifier(name)),
     IfThen(Identifier(name), <<ExitOne>>),
     IfThen(Comparison, <<PrintVar(name)>>),
     While(Identifier(name), <<Break>>),
     Repeat(Identifier(name), <<Break>>),
     ReturnStmt(Some(Identifier(name))),
     Exit(Identifier(name)),
     Allocate(s_total, Identifier(name)),
     BufferDecl(s_total, Identifier(name)),
     FunctionCall(s_make, <<Identifier(name)>>),
     Assignment(name, IntegerLit(1)),
     Increment(name),
     Decrement(name),
     Free(name)}

\* A flag declaration and a statement around it, with and without the parse
\* marker and a second declaration; the statement refers to the flag or not
FlagPrograms ==
    UNION {{<<FlagSchemaDecl(s_verbose), stmt, ParseFlags>>,
            <<stmt, FlagSchemaDecl(s_verbose), ParseFlags>>,
            <<FlagSchemaDecl(s_verbose), ParseFlags, stmt>>,
            <<FlagSchemaDecl(s_verbose), stmt>>,
            <<stmt, FlagSchemaDecl(s_verbose)>>,
            <<FlagSchemaDecl(s_verbose), stmt, FlagSchemaDecl(s_debug)>>,
            <<FlagSchemaDecl(s_verbose), stmt, stmt, ParseFlags>>} :
              stmt \in StatementsReferring(s_verbose) \cup {PrintVar(s_total), ExitOne}}

\* ------------------------------------------------------ include processing
\* main's process_includes: the see statements of a program are replaced by
\* the statements of the files they name.

ends_with(s, p) == Len(p) <= Len(s) /\ SubSeq(s, Len(s) - Len(p) + 1, Len(s)) = p

s_dot_slash == <<".", "/">>
s_dot_en == <<".", "e", "n">>

\* Statement::See
See(path) == [k |-> "See", path |-> path, lib_name |-> None, lib_version |-> None]

\* Path::parent: the path without its last component
RECURSIVE parent(_)
parent(path) ==
    IF path = <<>> THEN <<>>
    ELSE IF path[Len(path)] = "/" THEN SubSeq(path, 1, Len(path) - 1)
    ELSE parent(SubSeq(path, 1, Len(path) - 1))

\* Path::join of a relative path
join(dir, path) == IF dir = <<>> THEN path ELSE dir \o <<"/">> \o path

\* The path without its "." components; the sources are in the working
\* directory, and every path names a file of it
RECURSIVE file_name(_)
file_name(path) ==
    IF starts_with(path, s_dot_slash) THEN file_name(SubSeq(path, 3, Len(path))) ELSE path

\* The key of a path that canonicalize cannot set
not_canonical(files, path) == None

\* Path::canonicalize: the absolute path of an existing file, the working
\* directory being the root
canonicalize(files, path) ==
    IF file_name(path) \in DOMAIN files THEN Some(<<"/">> \o file_name(path)) ELSE None

\* canonicalize().unwrap_or(path.clone())
canonical_of(files, path) ==
    IF canonicalize(files, path) = None THEN path ELSE canonicalize(files, path)[1]

\* fs::read_to_string and parse: the statements of a file
read_to_string(files, path) ==
    IF file_name(path) \in DOMAIN files THEN Some(files[file_name(path)]) ELSE None

\* The include path of a see statement in the file base_path; no path is
\* absolute and none is in the system library
include_path_of(base_path, path) == join(parent(base_path), path)

\* A call of process_includes: the file, the statements not yet drained and
\* new_statements
IncludeCall(base_path, statements) ==
    [base_path |-> base_path, rest |-> statements, new_statements |-> <<>>]

\* main, at the call of process_includes on the program of source_path
NewIncludes(files, source_path) ==
    [files |-> files,
     included |-> {canonical_of(files, source_path)},
     stack |-> <<IncludeCall(source_path, files[source_path])>>,
     inlined |-> <<>>,
     done |-> FALSE]

\* new_statements.push(stmt) in the running call
PushStatement(I, stmt) ==
    [I EXCEPT !.stack[1].rest = Tail(@), !.stack[1].new_statements = Append(@, stmt)]

\* A see statement of a file that is not yet included: its statements are
\* read and process_includes is called on them; a file that cannot be read
\* leaves nothing
IncludeFile(I, path, canonical, source) ==
    IF source = None THEN [I EXCEPT !.stack[1].rest = Tail(@)]
    ELSE [I EXCEPT !.included = @ \cup {canonical},
                   !.stack = <<IncludeCall(path, source[1])>>
                             \o <<[I.stack[1] EXCEPT !.rest = Tail(@)]>>
                             \o Tail(I.stack)]

SeeStatement(I, stmt, path, canonical) ==
    IF canonical \in I.included THEN PushStatement(I, stmt)
    ELSE IF ends_with(stmt.path, s_dot_en)
         THEN IncludeFile(I, path, canonical, read_to_string(I.files, path))
         ELSE PushStatement(I, stmt)

SeeAt(I, stmt, path) == SeeStatement(I, stmt, path, canonical_of(I.files, path))

\* process_includes, one turn of the loop
IncludeTurn(I, stmt) ==
    IF stmt.k = "See"
    THEN SeeAt(I, stmt, include_path_of(I.stack[1].base_path, stmt.path))
    ELSE PushStatement(I, stmt)

\* process_includes, after the loop: the call returns and its caller extends
\* new_statements with the statements of the file
IncludeReturn(I) ==
    IF Len(I.stack) = 1 THEN [I EXCEPT !.stack = <<>>, !.done = TRUE]
    ELSE [I EXCEPT !.stack = <<[I.stack[2] EXCEPT
                                   !.new_statements = @ \o I.stack[1].new_statements]>>
                              \o SubSeq(I.stack, 3, Len(I.stack)),
                   !.inlined = Append(@, file_name(I.stack[1].base_path))]

\* The sources: m.en is compiled; a.en and b.en are beside it
s_m_en == <<"m", ".", "e", "n">>
s_a_en == <<"a", ".", "e", "n">>
s_b_en == <<"b", ".", "e", "n">>
s_gone_en == <<"g", ".", "e", "n">>
s_lib_so == <<"l", ".", "s", "o">>
FileNames == {s_m_en, s_a_en, s_b_en}
SeePaths == FileNames \cup {s_dot_slash \o s_a_en, s_gone_en, s_lib_so}

\* A file: its see statements, then a statement of its own
OwnStatement(name) == PrintStmt(StringLit(name))
FileOf(name, paths) == [i \in 1..Len(paths) |-> See(paths[i])] \o <<OwnStatement(name)>>

\* MaxSees see statements at most in all the files together
MaxSees == 3
SeeLists == UNION {[1..n -> SeePaths] : n \in 0..MaxSees}
FilesOf(paths, i, j) ==
    [name \in FileNames |->
        FileOf(name, IF name = s_m_en THEN SubSeq(paths, 1, i)
                     ELSE IF name = s_a_en THEN SubSeq(paths, i + 1, j)
                     ELSE SubSeq(paths, j + 1, Len(paths)))]

\* The calls of process_includes that the stack has room for
MaxDepth == 5
\* ------------------------------------------- programs for the generator

\* Expr::Range
RangeOf(start, end, inclusive) ==
    [k |-> "Range", start |-> start, end |-> end, inclusive |-> inclusive]

s_add_one == <<"a", "d", "d", "_", "o", "n", "e">>
s_add_space_one == <<"a", "d", "d", " ", "o", "n", "e">>
s_add_hyphen_one == <<"a", "d", "d", "-", "o", "n", "e">>

\* Statements that need labels: if-statements with and without else-if and
\* else, the three loops, a file that is opened, an element access, and
\* functions of four names
LabelStatements ==
    {IfThen(Comparison, <<>>),
     If(Comparison, <<>>, <<<<Comparison, <<>>>>>>, None),
     If(Comparison, <<>>, <<<<Comparison, <<>>>>>>, Some(<<>>)),
     While(Comparison, <<>>),
     Repeat(IntegerLit(2), <<IfThen(Comparison, <<>>)>>),
     ForRange(s_index, RangeOf(IntegerLit(0), IntegerLit(2), FALSE), <<>>),
     Declare("file", s_total),
     FunctionDef(s_pick, <<<<s_items, "List">>, <<s_index, "Integer">>>>,
                 <<ReturnStmt(Some(ElementAccess(Identifier(s_items), Identifier(s_index))))>>)}
    \cup {FunctionDef(name, <<>>, <<IfThen(Comparison, <<>>)>>) :
             name \in {s_add_one, s_add_space_one, s_add_hyphen_one}}

LabelPrograms == UNION {[1..n -> LabelStatements] : n \in 1..MaxStatements}

\* A counter that starts at 0, then one loop that would run twice: while the
\* counter is less than 2 (for a body that increments it), repeat 2 times,
\* for index from 0 to 2.  The body increments the counter, breaks,
\* continues, or breaks under a condition that holds
Zero(name) == VarDecl(name, Some("Integer"), Some(IntegerLit(0)))

LoopStatements ==
    {Increment(s_total), Break, Continue, IfThen(Comparison, <<Break>>)}

LoopBlocks == UNION {[1..n -> LoopStatements] : n \in 1..MaxStatements}

LoopsOf(body) ==
    {Repeat(IntegerLit(2), body),
     ForRange(s_index, RangeOf(IntegerLit(0), IntegerLit(2), FALSE), body)}
    \cup (IF \E i \in DOMAIN body : body[i].k = "Increment"
          THEN {While(BinaryOp(Identifier(s_total), "Less", IntegerLit(2)), body)}
          ELSE {})

LoopingPrograms == {<<Zero(s_total), loop>> : loop \in UNION {LoopsOf(body) : body \in LoopBlocks}}
\* ------------------------------------------------------------ specification

VARIABLES
    program,    \* the Program being analysed
    analyzer,   \* the Analyzer
    pass,       \* where analyze is: "first", "second" or "done"
    next_stmt,  \* second pass: index of the next top-level statement
    generator,  \* the CodeGenerator
    assembly,   \* the generated text, empty before generate has run
    cpu,        \* the machine that runs the generated text
    parser,     \* the Parser and the locals of parse
    lexer,      \* the Lexer and the locals of tokenize
    suggestion, \* a call of find_similar_keyword: the word and what was returned
    runs,       \* the feature flags each call of analyze has left in the program
    includer    \* process_includes: the files, the included set and the calls under way

vars == <<program, analyzer, pass, next_stmt, generator, assembly, cpu, parser, lexer, suggestion,
          runs, includer>>

\* The state of main once parse has returned the program
Parsed == [ParserOn(<<>>, <<EOF>>) EXCEPT !.done = TRUE]

\* The state of main once tokenize has returned the tokens
Tokenized == [NewLexer(<<>>) EXCEPT !.tokens = <<EOF>>, !.done = TRUE]

\* No call of process_includes under way
NoIncludes == [files |-> <<>>, included |-> {}, stack |-> <<>>, inlined |-> <<>>, done |-> TRUE]

\* No call of find_similar_keyword under way
NoCall == [word |-> <<>>, result |-> <<>>, returned |-> TRUE]

AnalyzerInit(programs) ==
    /\ program \in {NewProgram(statements) : statements \in programs}
    /\ analyzer = NewAnalyzer
    /\ pass = "first"
    /\ next_stmt = 1
    /\ generator = NewCodeGenerator(FALSE)
    /\ assembly = <<>>
    /\ cpu = NewCpu(0, 0, 0, <<>>)
    /\ parser = Parsed
    /\ lexer = Tokenized
    /\ suggestion = NoCall
    /\ runs = <<>>
    /\ includer = NoIncludes

\* The four feature flags of a program
FeatureFlags(p) ==
    [uses_io |-> p.uses_io, uses_heap |-> p.uses_heap, uses_strings |-> p.uses_strings,
     uses_args |-> p.uses_args]

\* analyze: the first pass
Collect ==
    /\ pass = "first"
    /\ analyzer' = CollectGlobals(analyzer, program.statements)
    /\ pass' = "second"
    /\ UNCHANGED <<program, next_stmt, generator, assembly, cpu, parser, lexer, suggestion, runs, includer>>

\* analyze: the second pass, one top-level statement
AnalyzeStatement ==
    /\ pass = "second"
    /\ next_stmt <= Len(program.statements)
    /\ analyzer' = analyze_statement(analyzer, program.statements[next_stmt])
    /\ next_stmt' = next_stmt + 1
    /\ UNCHANGED <<program, pass, generator, assembly, cpu, parser, lexer, suggestion, runs, includer>>

\* analyze: the third pass, and the feature flags written to the program
Finish ==
    /\ pass = "second"
    /\ next_stmt > Len(program.statements)
    /\ \E unknown \in Orders(analyzer.typo_candidates) :
          analyzer' = check_for_typos(analyzer, unknown)
    /\ program' = [program EXCEPT !.uses_io = analyzer'.deps.uses_io,
                                  !.uses_heap = analyzer'.deps.uses_heap,
                                  !.uses_strings = analyzer'.deps.uses_strings,
                                  !.uses_args = analyzer'.deps.uses_args]
    /\ runs' = Append(runs, FeatureFlags(program'))
    /\ pass' = "done"
    /\ UNCHANGED <<next_stmt, generator, assembly, cpu, parser, lexer, suggestion, includer>>

\* generate, for a program the analyzer found no error in, and the start of
\* the generated text
Generate ==
    /\ pass = "done"
    /\ analyzer.errors = <<>>
    /\ cpu.status = "idle"
    /\ generator' = generate(generator, program)
    /\ assembly' = Assemble(generator')
    /\ cpu' = Boot(cpu, generator', assembly')
    /\ UNCHANGED <<program, analyzer, pass, next_stmt, parser, lexer, suggestion, runs, includer>>

\* The machine executes the instruction at pc
Step ==
    /\ cpu.status = "running"
    /\ cpu' = Execute(cpu, assembly)
    /\ UNCHANGED <<program, analyzer, pass, next_stmt, generator, assembly, parser, lexer, suggestion, runs, includer>>

\* parse: one turn of the loop over the statements of the text
ParseStatement ==
    /\ pass = "parse"
    /\ ~parser.done
    /\ ~At(skip_all_whitespace(parser), {"EOF"})
    /\ parser' = StatementParsed(parse_statement(skip_all_whitespace(parser)))
    /\ UNCHANGED <<program, analyzer, pass, next_stmt, generator, assembly, cpu, lexer, suggestion, runs, includer>>

\* parse: the end of the tokens, and the program handed to the analyzer
ParseEnd ==
    /\ pass = "parse"
    /\ ~parser.done
    /\ At(skip_all_whitespace(parser), {"EOF"})
    /\ parser' = [skip_all_whitespace(parser) EXCEPT !.done = TRUE]
    /\ program' = NewProgram(parser.statements)
    /\ pass' = "first"
    /\ UNCHANGED <<analyzer, next_stmt, generator, assembly, cpu, lexer, suggestion, runs, includer>>

\* parse_print, called by parse_statement at a print
ParsePrint ==
    /\ pass = "print"
    /\ ~parser.done
    /\ At(parser, {"Print"})
    /\ parser' = [StatementParsed(parse_print(parser)) EXCEPT !.done = TRUE]
    /\ UNCHANGED <<program, analyzer, pass, next_stmt, generator, assembly, cpu, lexer, suggestion, runs, includer>>

\* tokenize: one turn of the loop
Tokenize ==
    /\ pass = "tokenize"
    /\ ~lexer.done
    /\ lexer' = TokenizeTurn(lexer)
    /\ UNCHANGED <<program, analyzer, pass, next_stmt, generator, assembly, cpu, parser, suggestion, runs, includer>>

\* The lexer at the start of tokenize, for the texts given
LexerInit(sources) ==
    /\ program = NewProgram(<<>>)
    /\ analyzer = NewAnalyzer
    /\ pass = "tokenize"
    /\ next_stmt = 1
    /\ generator = NewCodeGenerator(FALSE)
    /\ assembly = <<>>
    /\ cpu = NewCpu(0, 0, 0, <<>>)
    /\ parser = Parsed
    /\ lexer \in {NewLexer(source) : source \in sources}
    /\ suggestion = NoCall
    /\ runs = <<>>
    /\ includer = NoIncludes

\* The parser at the start of parse, for the texts given
ParserInit(texts) ==
    /\ program = NewProgram(<<>>)
    /\ analyzer = NewAnalyzer
    /\ pass = "parse"
    /\ next_stmt = 1
    /\ generator = NewCodeGenerator(FALSE)
    /\ assembly = <<>>
    /\ cpu = NewCpu(0, 0, 0, <<>>)
    /\ parser \in {ParserOnText(text) : text \in texts}
    /\ lexer = Tokenized
    /\ suggestion = NoCall
    /\ runs = <<>>
    /\ includer = NoIncludes

Next == Collect \/ AnalyzeStatement \/ Finish

\* The parser alone
NextParse == ParseStatement \/ ParseEnd

\* The compiler and the run of what it generated
NextCompile == Collect \/ AnalyzeStatement \/ Finish \/ Generate \/ Step

\* The analyzer and the code generator, the generated text not being run
NextGenerate == Collect \/ AnalyzeStatement \/ Finish \/ Generate

\* The analyzer on straight-line programs and on scenario 3
Init == AnalyzerInit(StraightLinePrograms \cup {Scenario3})

Spec == Init /\ [][Next]_vars

\* The analyzer on one if-statement with several branches
InitIf == AnalyzerInit(IfPrograms)

SpecIf == InitIf /\ [][Next]_vars

\* The analyzer on a guarded declaration followed by a use
InitGuard == AnalyzerInit(GuardPrograms)

SpecGuard == InitGuard /\ [][Next]_vars

\* The analyzer on a function definition and a use of its local
InitFunction == AnalyzerInit(FunctionPrograms)

SpecFunction == InitFunction /\ [][Next]_vars

\* The compiler on declarations of two names by every declaring statement
InitSlots == AnalyzerInit(DeclarationPrograms)

SpecSlots == InitSlots /\ [][NextGenerate]_vars

\* The compiler on a call of a function, and the run of the executable
InitCall ==
    /\ program \in {NewProgram(statements) : statements \in CallPrograms}
    /\ analyzer = NewAnalyzer
    /\ pass = "first"
    /\ next_stmt = 1
    /\ generator = NewCodeGenerator(FALSE)
    /\ assembly = <<>>
    /\ cpu \in {NewCpu(junk, junk, junk, <<>>) : junk \in JunkValues}
    /\ parser = Parsed
    /\ lexer = Tokenized
    /\ suggestion = NoCall
    /\ runs = <<>>
    /\ includer = NoIncludes

SpecCall == InitCall /\ [][NextCompile]_vars

\* The compiler on a library function that accesses a list, and a call of the
\* function with a list and an index
InitAccess ==
    /\ program \in {NewProgram(statements) : statements \in AccessPrograms}
    /\ analyzer = NewAnalyzer
    /\ pass = "first"
    /\ next_stmt = 1
    /\ generator = NewCodeGenerator(TRUE)
    /\ assembly = <<>>
    /\ cpu \in {NewCpu(junk, pointer, index, ListAt(pointer, length)) :
                    junk \in JunkValues, pointer \in ListPointers,
                    index \in Indices, length \in 0..MaxLength}
    /\ parser = Parsed
    /\ lexer = Tokenized
    /\ suggestion = NoCall
    /\ runs = <<>>
    /\ includer = NoIncludes

SpecAccess == InitAccess /\ [][NextCompile]_vars


\* The parser on an if-statement or a repeat-statement and a sentence after it
InitPeriod == ParserInit(PeriodTexts)

SpecPeriod == InitPeriod /\ [][NextParse]_vars

\* The parser on a function definition, a paragraph break and a statement
InitFunctionBody == ParserInit(FunctionTexts)

SpecFunctionBody == InitFunctionBody /\ [][NextParse]_vars

\* The parser at a print in the body of a construct, the print followed by a
\* comma and another action
InitPrint ==
    /\ program = NewProgram(<<>>)
    /\ analyzer = NewAnalyzer
    /\ pass = "print"
    /\ next_stmt = 1
    /\ generator = NewCodeGenerator(FALSE)
    /\ assembly = <<>>
    /\ cpu = NewCpu(0, 0, 0, <<>>)
    /\ parser \in {[ParserOnText(text) EXCEPT !.pos = Len(text[1].sentence)] :
                      text \in PrintTexts}
    /\ lexer = Tokenized
    /\ suggestion = NoCall
    /\ runs = <<>>
    /\ includer = NoIncludes

SpecPrint == InitPrint /\ [][ParsePrint]_vars

\* The parser on a loop with or without a treating clause
InitTreating == ParserInit(LoopTexts)

SpecTreating == InitTreating /\ [][NextParse]_vars

\* The parser on a buffer declaration that states a size
InitBuffer == ParserInit(BufferTexts)

SpecBuffer == InitBuffer /\ [][NextParse]_vars

\* The lexer on one word
InitWords == LexerInit(Words)

SpecWords == InitWords /\ [][Tokenize]_vars

\* The lexer on a short text
InitText == LexerInit(Texts)

SpecText == InitText /\ [][Tokenize]_vars

\* tokenize runs on: a turn of the loop that can be taken is taken
FairSpecText == SpecText /\ WF_vars(Tokenize)

\* find_similar_keyword(word, ENGLISH_KEYWORDS), from the call to the return
Suggest ==
    /\ pass = "suggest"
    /\ ~suggestion.returned
    /\ suggestion' = [suggestion EXCEPT
                         !.result = find_similar_keyword(suggestion.word, ENGLISH_KEYWORDS),
                         !.returned = TRUE]
    /\ UNCHANGED <<program, analyzer, pass, next_stmt, generator, assembly, cpu, parser, lexer, runs, includer>>

InitSuggest ==
    /\ program = NewProgram(<<>>)
    /\ analyzer = NewAnalyzer
    /\ pass = "suggest"
    /\ next_stmt = 1
    /\ generator = NewCodeGenerator(FALSE)
    /\ assembly = <<>>
    /\ cpu = NewCpu(0, 0, 0, <<>>)
    /\ parser = Parsed
    /\ lexer = Tokenized
    /\ suggestion \in {[word |-> word, result |-> <<>>, returned |-> FALSE] : word \in SuggestWords}
    /\ runs = <<>>
    /\ includer = NoIncludes

SpecSuggest == InitSuggest /\ [][Suggest]_vars

\* The analyzer on prints and declarations of short names
InitShort == AnalyzerInit(ShortPrograms)

SpecShort == InitShort /\ [][Next]_vars

\* The parser on sentences that write to a file
InitWrite == ParserInit(WriteTexts)

SpecWrite == InitWrite /\ [][NextParse]_vars

\* The analyzer on uses of misspelled keywords and of other unknown names
InitTypos == AnalyzerInit(TypoPrograms)

SpecTypos == InitTypos /\ [][Next]_vars

\* The analyzer on programs that declare a flag
InitFlags == AnalyzerInit(FlagPrograms)

SpecFlags == InitFlags /\ [][Next]_vars

\* analyze is called on the program again, up to MaxRuns calls in all, with
\* the analyzer of the call before or with a new one
MaxRuns == 2

Reanalyze ==
    /\ pass = "done"
    /\ Len(runs) < MaxRuns
    /\ analyzer' \in {analyzer, NewAnalyzer}
    /\ pass' = "first"
    /\ next_stmt' = 1
    /\ UNCHANGED <<program, generator, assembly, cpu, parser, lexer, suggestion, runs, includer>>

NextAgain == Collect \/ AnalyzeStatement \/ Finish \/ Reanalyze

InitFeatures == AnalyzerInit(FeaturePrograms)

SpecFeatures == InitFeatures /\ [][NextAgain]_vars

\* process_includes: a turn of the loop of the running call, or its return;
\* the last return leaves the statements in the program
ProcessIncludes ==
    /\ pass = "include"
    /\ ~includer.done
    /\ Len(includer.stack) <= MaxDepth
    /\ LET call == includer.stack[1] IN
        IF call.rest = <<>>
        THEN /\ includer' = IncludeReturn(includer)
             /\ program' = IF Len(includer.stack) = 1
                            THEN [program EXCEPT !.statements = call.new_statements]
                            ELSE program
        ELSE /\ includer' = IncludeTurn(includer, Head(call.rest))
             /\ program' = program
    /\ UNCHANGED <<analyzer, pass, next_stmt, generator, assembly, cpu, parser, lexer, suggestion, runs>>

\* main, with the program of m.en parsed
InitIncludes ==
    /\ \E paths \in SeeLists : \E j \in 0..Len(paths) : \E i \in 0..j :
           /\ program = NewProgram(FilesOf(paths, i, j)[s_m_en])
           /\ includer = NewIncludes(FilesOf(paths, i, j), s_m_en)
    /\ analyzer = NewAnalyzer
    /\ pass = "include"
    /\ next_stmt = 1
    /\ generator = NewCodeGenerator(FALSE)
    /\ assembly = <<>>
    /\ cpu = NewCpu(0, 0, 0, <<>>)
    /\ parser = Parsed
    /\ lexer = Tokenized
    /\ suggestion = NoCall
    /\ runs = <<>>

SpecIncludes == InitIncludes /\ [][ProcessIncludes]_vars

\* process_includes runs on: a step that can be taken is taken
FairSpecIncludes == SpecIncludes /\ WF_vars(ProcessIncludes)

\* The analyzer and the code generator on statements that need labels
InitLabels == AnalyzerInit(LabelPrograms)

SpecLabels == InitLabels /\ [][NextGenerate]_vars

\* The compiler on a loop with break and continue, and the run of the executable
InitLoops == AnalyzerInit(LoopingPrograms)

SpecLoops == InitLoops /\ [][NextCompile]_vars
\* ------------------------------------------------------ analyzer properties

IsDeclaration(stmt) ==
    stmt.k \in {"VarDecl", "BufferDecl", "Allocate", "TimerDecl", "FileOpen", "GetTime"}

DeclaredName(stmt) == IF stmt.k = "GetTime" THEN stmt.into ELSE stmt.name

\* The guard keys a condition puts its then-branch under
GuardsOf(condition) ==
    IF simple_guard_key(condition) = None THEN {} ELSE {simple_guard_key(condition)[1]}

\* The declarations and the uses of a block in source order, each with the
\* guard keys it stands under
RECURSIVE Events(_, _)
Events(block, guards) ==
    IF block = <<>> THEN <<>>
    ELSE LET stmt == Head(block)
             here ==
                CASE IsDeclaration(stmt) ->
                        <<[use |-> FALSE, name |-> DeclaredName(stmt), guards |-> guards]>>
                  [] stmt.k = "Print" /\ stmt.value.k = "FormatString" ->
                        [i \in DOMAIN stmt.value.parts |->
                            [use |-> TRUE, name |-> stmt.value.parts[i].name,
                             guards |-> guards]]
                  [] stmt.k = "If" ->
                        Events(stmt.then_block, guards \cup GuardsOf(stmt.condition))
                        \o (IF stmt.else_block = None THEN <<>>
                            ELSE Events(stmt.else_block[1], guards))
                  [] OTHER -> <<>>
         IN  here \o Events(Tail(block), guards)

ReportsUnknownVariable(name) ==
    \E i \in DOMAIN analyzer.errors : analyzer.errors[i] = MsgUnknownVariable \o name

\* Every use of name comes after a declaration of name under guards that all
\* hold at the use
EveryUseHasPriorDeclaration(name) ==
    LET events == Events(program.statements, {})
    IN  \A i \in DOMAIN events :
            (events[i].use /\ events[i].name = name) =>
                \E j \in 1..(i - 1) :
                    /\ ~events[j].use
                    /\ events[j].name = name
                    /\ events[j].guards \subseteq events[i].guards

\* C1: scope soundness, for the variable total: when the returned error list
\* holds no "Unknown variable: total", every use of total in the program is
\* preceded by a declaration of total reachable through the same or a
\* compatible guard.
C1_ScopeSoundness ==
    (pass = "done" /\ ~ReportsUnknownVariable(s_total)) =>
        EveryUseHasPriorDeclaration(s_total)

\* The unconditional sets the merge of an if-statement is taken over: the exit
\* of every branch that does not always terminate, and the incoming scope when
\* there is no else branch
ContinuingAlways(entry) ==
    {entry.exits[i].env.always :
        i \in {j \in DOMAIN entry.exits : ~block_always_terminates(entry.exits[j].block)}}
    \cup (IF entry.has_else THEN {} ELSE {entry.incoming.always})

Intersection(family) == {name \in UNION family : \A S \in family : name \in S}

\* C2: after an if-statement has been analysed, the unconditionally available
\* variables are the intersection of the unconditional sets at the exit of
\* every branch that does not always terminate, the incoming scope counting as
\* one more branch when there is no else branch (stated for every if-statement
\* that has at least one such branch).
C2_GuardIntersection ==
    \A i \in DOMAIN analyzer.if_log :
        LET entry == analyzer.if_log[i]
        IN  ContinuingAlways(entry) # {} =>
                entry.after.always = Intersection(ContinuingAlways(entry))

\* An if-statement with a branch that always terminates and two continuing
\* branches whose exits differ, which leaves a variable unconditionally available
C2_Witness ==
    /\ pass = "done"
    /\ \E i \in DOMAIN analyzer.if_log :
          LET entry == analyzer.if_log[i]
          IN  /\ Cardinality(ContinuingAlways(entry)) >= 2
              /\ \E j \in DOMAIN entry.exits : block_always_terminates(entry.exits[j].block)
              /\ entry.after.always # {}
              /\ entry.after.always # entry.incoming.always

\* An error of the returned list that names the variable
NamesVariable(message, name) ==
    \/ message = MsgUnknownVariable \o name
    \/ message = TypoError(name)

IsReported(name) ==
    \E i \in DOMAIN analyzer.errors : NamesVariable(analyzer.errors[i], name)

\* The programs of the guard family: a declaration in the then-branch of a
\* first if-statement, and a use of the declared name in a second statement
GuardedName == DeclaredName(program.statements[1].then_block[1])

GuardedKey == simple_guard_key(program.statements[1].condition)

UseKey ==
    IF program.statements[2].k = "If"
    THEN simple_guard_key(program.statements[2].condition)
    ELSE None

\* C3, for the variable total: a variable whose only declaration is in the
\* then-branch of a top-level if-statement with guard key K is not available in
\* a branch guarded by a different key nor at top level after the if-statement:
\* the use there is reported as an error, for every kind of declaring statement.
C3_GuardedNotAvailableElsewhere ==
    (pass = "done" /\ GuardedName = s_total /\ GuardedKey # None /\ UseKey # GuardedKey) =>
        IsReported(GuardedName)

\* C4, for the variable total: two if-statements whose conditions have equal
\* guard keys share their declared-variable set: a variable declared in the
\* then-branch of the first is available, with no error, in the then-branch of
\* the later one.
C4_EqualKeysShare ==
    (pass = "done" /\ GuardedName = s_total /\ GuardedKey # None /\ UseKey = GuardedKey) =>
        /\ ~IsReported(GuardedName)
        /\ \A i \in DOMAIN analyzer.use_log :
              analyzer.use_log[i].name = GuardedName => analyzer.use_log[i].available

\* The step that analyses a top-level function definition
IsFunctionDefStep ==
    /\ pass = "second"
    /\ next_stmt <= Len(program.statements)
    /\ program.statements[next_stmt].k = "FunctionDef"
    /\ next_stmt' = next_stmt + 1

\* C5: function bodies are analysed in an isolated scope: temp, declared only
\* inside a function body, is never available to a top-level statement before
\* or after the definition, and the variable, guard and guarded-scope state
\* after the definition equals the state before it.
C5_FunctionIsolation ==
    [][/\ \A i \in DOMAIN analyzer'.use_log :
              analyzer'.use_log[i].name = s_temp => ~analyzer'.use_log[i].available
       /\ ~is_variable_available(analyzer', s_temp)
       /\ IsFunctionDefStep =>
              /\ analyzer'.variables = analyzer.variables
              /\ analyzer'.guarded_scopes = analyzer.guarded_scopes
              /\ analyzer'.active_guards = analyzer.active_guards]_vars

\* A function whose body declared temp under a scope that already held
\* variables, followed by a top-level use of temp
C5_Witness ==
    /\ pass = "done"
    /\ \E i \in DOMAIN program.statements :
          /\ program.statements[i].k = "FunctionDef"
          /\ i > 1
          /\ program.statements[1].k # "Print"
          /\ \E j \in (i + 1)..Len(program.statements) :
                program.statements[j] = PrintVar(s_temp)
    /\ \E i \in DOMAIN analyzer.use_log :
          analyzer.use_log[i].name = s_temp /\ ~analyzer.use_log[i].available
    /\ IsReported(s_temp)

\* C6, for the names that do not start with an underscore: every reference to
\* a variable that is not available at its point of use results in at least
\* one error naming that variable in the returned error list, whatever other
\* errors were found.
C6_AllErrorsCollected ==
    pass = "done" =>
        \A i \in DOMAIN analyzer.use_log :
            (/\ ~analyzer.use_log[i].available
             /\ ~starts_with(analyzer.use_log[i].name, Underscore)) =>
                IsReported(analyzer.use_log[i].name)

\* C7 (as the code has it): for scenario 3 the returned error list is the one
\* deferred diagnostic Unknown identifier 'level', level being within edit
\* distance two of the keyword even.
C7_Scenario3UnknownIdentifier ==
    (pass = "done" /\ program.statements = Scenario3) =>
        /\ analyzer.errors = <<TypoError(s_level)>>
        /\ find_similar_keyword(s_level, ENGLISH_KEYWORDS) = Some(<<"e","v","e","n">>)

\* Scenario 3 has been analysed and its use of level was found unavailable
C7_Witness ==
    /\ pass = "done"
    /\ program.statements = Scenario3
    /\ \E i \in DOMAIN analyzer.use_log :
          analyzer.use_log[i].name = s_level /\ ~analyzer.use_log[i].available

\* C7 as stated: for scenario 3 the error list contains an error whose message
\* is "Unknown variable: level".
C7_Scenario3UnknownVariable ==
    (pass = "done" /\ program.statements = Scenario3) => ReportsUnknownVariable(s_level)

\* ------------------------------------------------- code generator properties

\* The access of the library function, and what its caller passed
AccessExpr == program.statements[1].body[1].value[1]

GivenList == cpu.regs["rdi"]

GivenIndex == cpu.regs["rsi"]

GivenLength == Read(cpu, GivenList + WordBytes)

FirstIndex == IF AccessExpr.k = "ElementAccess" THEN 1 ELSE 0

InBounds == FirstIndex <= GivenIndex /\ GivenIndex < FirstIndex + GivenLength

ElementAddress == GivenList + ListHeaderBytes + WordBytes * (GivenIndex - FirstIndex)

\* C8: for every index value and every list length, the code generated for an
\* element access (1-indexed) and for a list access (0-indexed) loads from the
\* list only when the index is within bounds, and then the element at the
\* index; otherwise it stores 1 in _last_error and yields 0 without the load.
\* The loads it performs besides are of its stack slots and of the length.
C8_BoundsChecked ==
    /\ \A i \in DOMAIN cpu.loads :
          \/ cpu.loads[i] < 0
          \/ cpu.loads[i] = GivenList + WordBytes
          \/ InBounds /\ cpu.loads[i] = ElementAddress
    /\ cpu.status = "halted" =>
          IF InBounds
          THEN /\ cpu.regs["rax"] = Read(cpu, ElementAddress)
               /\ cpu.last_error = 0
               /\ \E i \in DOMAIN cpu.loads : cpu.loads[i] = ElementAddress
          ELSE /\ cpu.last_error = 1
               /\ cpu.regs["rax"] = 0

\* The function has returned for an index one past the end of a list that has
\* elements
C8_Witness ==
    /\ cpu.status = "halted"
    /\ GivenLength >= 1
    /\ GivenIndex = FirstIndex + GivenLength
    /\ cpu.last_error = 1
    /\ cpu.regs["rax"] = 0

\* The arguments of the call of the call programs
CallSiteArgs ==
    IF program.statements[2].k = "FunctionCall"
    THEN program.statements[2].args
    ELSE program.statements[2].value[1].args

\* The callee's prologue has just run
AfterPrologue ==
    /\ cpu.status = "running"
    /\ cpu.pc > 1
    /\ assembly[cpu.pc - 1].op = "FUNC_PROLOGUE"

\* C9: for every call with more than six arguments, at statement-level and at
\* expression-level call sites, once the callee's prologue has run the value of
\* the i-th argument (i >= 7) is at [rbp+16+8*(i-7)], where the callee reads it.
C9_StackArguments ==
    AfterPrologue =>
        \A i \in 7..Len(CallSiteArgs) :
            Read(cpu, cpu.regs["rbp"] + 16 + 8 * (i - 7)) = CallSiteArgs[i].v

\* The stack pointer _start leaves for the first statement
RspAtFirstStatement ==
    cpu.regs["rbp"] - (IF generator.stack_offset > 0
                       THEN frame_size(generator.stack_offset) ELSE 0)

\* C10: at every function call site, for every argument count, the stack
\* pointer after the generated call sequence has completed equals the stack
\* pointer before the first argument was evaluated.
C10_StackPointerRestored ==
    (cpu.status = "running" /\ assembly[cpu.pc].op = "EXIT") =>
        cpu.regs["rsp"] = RspAtFirstStatement



\* The names the program declares before its i-th statement
DeclaredBefore(i) == {DeclaredName(program.statements[j]) : j \in 1..(i - 1)}

\* The index of the first statement that declares the name
FirstDeclaration(name) ==
    CHOOSE i \in DOMAIN program.statements :
        /\ DeclaredName(program.statements[i]) = name
        /\ name \notin DeclaredBefore(i)

\* C11: within the frame of _start, re-declaring a name that already has a
\* slot never allocates a new slot: after any sequence of declarations every
\* name has the offset its first declaration gave it (one word below the names
\* declared before it) and the frame's stack offset is one word per name
\* declared, for every statement kind that declares a named variable.
C11_SlotReuse ==
    (assembly # <<>> /\ \A i \in DOMAIN program.statements :
                            IsDeclaration(program.statements[i])) =>
        /\ generator.stack_offset
              = WordBytes * Cardinality(DeclaredBefore(Len(program.statements) + 1))
        /\ \A name \in DOMAIN generator.variables :
              generator.variables[name]
                  = WordBytes * (Cardinality(DeclaredBefore(FirstDeclaration(name))) + 1)

\* The text is two sentences in one paragraph, the first an if-statement or
\* a repeat-statement, and parse has returned a program
TwoSentencesParsed ==
    /\ parser.done
    /\ parser.error = None
    /\ Len(parser.text) = 2
    /\ parser.text[1].sentence[1].t \in {"If", "Repeat"}
    /\ parser.text[1].end \in PeriodEnds

\* C12: a period ends the statement it follows: when an if-statement or a
\* repeat-statement is followed by a period and another sentence of the same
\* paragraph, the program has two top-level statements, the second being the
\* statement of the second sentence.
C12_PeriodEndsStatement ==
    TwoSentencesParsed =>
        /\ Len(parser.statements) = 2
        /\ parser.statements[2] = StatementOf(parser.text[2].sentence)

\* No reachable parse leaves the part of the parser that is modelled
ParserWithinModel == parser.error # Some(OutsideModel)

\* The strings the prints of the statements print, at every depth
RECURSIVE Printed(_)
Printed(statements) ==
    UNION {CASE stmt.k = "Print" -> {stmt.value.s}
             [] stmt.k = "If" ->
                    Printed(stmt.then_block)
                    \cup Printed([i \in DOMAIN stmt.else_if_blocks |->
                                     If(stmt.else_if_blocks[i][1], stmt.else_if_blocks[i][2],
                                        <<>>, None)])
                    \cup (IF stmt.else_block = None THEN {} ELSE Printed(stmt.else_block[1]))
             [] stmt.k \in {"While", "Repeat", "FunctionDef"} -> Printed(stmt.body)
             [] OTHER -> {} : stmt \in Range(statements)}

\* The strings the prints of a sentence print
PrintedBySentence(sentence) ==
    {sentence[m].s : m \in {m \in 2..Len(sentence) : /\ sentence[m].t = "StringLiteral"
                                                     /\ sentence[m - 1].t = "Print"}}

\* The strings the sentences i..j of the text print
PrintedBy(i, j) == UNION {PrintedBySentence(parser.text[n].sentence) : n \in i..j}

\* The sentence that ends the first paragraph of the text
FirstParagraphEnd ==
    CHOOSE k \in DOMAIN parser.text :
        /\ Tok("ParagraphBreak") \in Range(parser.text[k].end)
        /\ \A i \in 1..(k - 1) : Tok("ParagraphBreak") \notin Range(parser.text[i].end)

\* The text starts with a function definition and parse has returned a program
FunctionParsed ==
    /\ parser.done
    /\ parser.error = None
    /\ parser.text[1].sentence[1].t = "To"

\* C13: the body of a function is the statements between its signature and
\* the first paragraph break after it: the program's first statement is the
\* function definition, the sentences up to the paragraph break are in it, and
\* each sentence after the paragraph break is a top-level statement of its own,
\* whatever statements the body holds.
C13_BodyEndsAtParagraphBreak ==
    FunctionParsed =>
        /\ parser.statements[1].k = "FunctionDef"
        /\ Printed(<<parser.statements[1]>>) = PrintedBy(1, FirstParagraphEnd)
        /\ Len(parser.statements) = 1 + Len(parser.text) - FirstParagraphEnd
        /\ \A i \in (FirstParagraphEnd + 1)..Len(parser.text) :
              parser.statements[1 + i - FirstParagraphEnd] = StatementOf(parser.text[i].sentence)

\* C14: when a print, with or without conditional clauses, is followed by a
\* comma that no but, and or if follows, the parser's position after the print
\* is at that comma.
C14_TrailingCommaRestored ==
    (pass = "print" /\ parser.done /\ parser.error = None) =>
        parser.pos = Len(parser.text[1].sentence) + Len(parser.text[2].sentence)

\* The expression a token of a treating clause stands for
ClauseExpr(token) ==
    IF token.t = "StringLiteral" THEN StringLit(token.s) ELSE Identifier(token.s)

\* The treating clause the text was written with: <<match, replacement>>, or
\* <<>> without one
TreatingWritten(tokens) ==
    IF \A i \in DOMAIN tokens : tokens[i].t # "Treating" THEN <<>>
    ELSE <<ClauseExpr(tokens[1 + CHOOSE i \in DOMAIN tokens : tokens[i].t = "Treating"]),
           ClauseExpr(tokens[3 + CHOOSE i \in DOMAIN tokens : tokens[i].t = "Treating"])>>

\* Every reference to the variable in the expression is the value of a
\* TreatingAs with the match and the replacement
RECURSIVE Wrapped(_, _, _)
Wrapped(expr, variable, clause) ==
    CASE expr.k = "Identifier" -> expr.name # variable
      [] expr.k = "TreatingAs" ->
            /\ expr.match_value = clause[1]
            /\ expr.replacement = clause[2]
            /\ (expr.value = Identifier(variable) \/ Wrapped(expr.value, variable, clause))
      [] expr.k = "BinaryOp" ->
            Wrapped(expr.left, variable, clause) /\ Wrapped(expr.right, variable, clause)
      [] expr.k = "UnaryOp" -> Wrapped(expr.operand, variable, clause)
      [] expr.k = "FunctionCall" ->
            \A i \in DOMAIN expr.args : Wrapped(expr.args[i], variable, clause)
      [] OTHER -> TRUE

\* The same of every expression of the statements, at any depth
RECURSIVE WrappedIn(_, _, _)
WrappedIn(body, variable, clause) ==
    \A i \in DOMAIN body :
        CASE body[i].k \in {"Print", "Assignment"} -> Wrapped(body[i].value, variable, clause)
          [] body[i].k = "If" ->
                /\ Wrapped(body[i].condition, variable, clause)
                /\ WrappedIn(body[i].then_block, variable, clause)
                /\ \A j \in DOMAIN body[i].else_if_blocks :
                      /\ Wrapped(body[i].else_if_blocks[j][1], variable, clause)
                      /\ WrappedIn(body[i].else_if_blocks[j][2], variable, clause)
                /\ \A j \in DOMAIN body[i].else_block :
                      WrappedIn(body[i].else_block[j], variable, clause)
          [] body[i].k = "While" ->
                /\ Wrapped(body[i].condition, variable, clause)
                /\ WrappedIn(body[i].body, variable, clause)
          [] body[i].k = "Repeat" ->
                /\ Wrapped(body[i].count, variable, clause)
                /\ WrappedIn(body[i].body, variable, clause)
          [] body[i].k = "Return" ->
                \A j \in DOMAIN body[i].value : Wrapped(body[i].value[j], variable, clause)
          [] body[i].k = "FunctionCall" ->
                \A j \in DOMAIN body[i].args : Wrapped(body[i].args[j], variable, clause)
          [] OTHER -> TRUE

\* parse has returned the loop of a text written with a treating clause
TreatingLoopParsed ==
    /\ parser.done
    /\ parser.error = None
    /\ TreatingWritten(parser.tokens) # <<>>
    /\ Len(parser.statements) = 1
    /\ parser.statements[1].k \in {"ForEach", "ForRange"}

\* C15: in the body of a loop written with a treating clause, every reference
\* to the loop variable, in every statement and at every depth of every
\* expression, is the value of a TreatingAs expression with the clause's match
\* and replacement.
C15_TreatingWrapsEveryReference ==
    TreatingLoopParsed =>
        WrappedIn(parser.statements[1].body, parser.statements[1].variable,
                  TreatingWritten(parser.tokens))

\* The text is a buffer declaration that states one of the sizes
StatesSize(sizes) ==
    parser.text[1].sentence \in UNION {BufferSentences(size) : size \in sizes}

BufferSizeErrors == {MsgSizePositive, MsgSizeMaximum, MsgSizeNumeric}

\* The parser has come to the end of the text or to an error
ParseReturned == parser.done \/ parser.pos >= Len(parser.tokens) - 1

\* C16: a buffer declaration that states a size of 0, a negative size, a size
\* that is not an integer literal, or a size above 1 GiB is rejected by the
\* parser with a buffer-size error, in the `a buffer called .. is .. bytes`
\* form and in the `Create a buffer called .. with size ..` form.
C16_BadBufferSizeRejected ==
    (ParseReturned /\ StatesSize(BadSizes)) =>
        /\ parser.error # None
        /\ parser.error[1] \in BufferSizeErrors

\* tokenize has returned the tokens of a word of read_word's table
SynonymTokenized == lexer.done /\ lexer.source \in TableWords

\* C17: a word of the tokenizer's word table, tokenized alone, gives exactly
\* one token before EOF, and the token is the one that the canonical form of
\* the word - the keyword name of the token of the word's arm - is tokenized to.
C17_SynonymClosure ==
    SynonymTokenized =>
        /\ Len(lexer.tokens) = 2
        /\ lexer.tokens = tokenize(KeywordOfToken[TokenOfWord[lexer.source]])

\* A word as read_word reads one: a letter, then letters, digits, _ and -
IsWord(source) ==
    /\ source # <<>>
    /\ source[1] \in Letters
    /\ \A i \in DOMAIN source : source[i] \in Letters \cup Digits \cup {"_", "-"}

\* C18: string_is_keyword reports a word as reserved exactly when the word is
\* tokenized to a keyword token and not to an Identifier.
C18_ReservedIffKeywordToken ==
    (lexer.done /\ IsWord(lexer.source)) =>
        (string_is_keyword(lexer.source) # <<>> <=> as_keyword(lexer.tokens[1]) # <<>>)

\* The text with every character of a comment or of a string, the delimiters
\* too, replaced by #: what is left is the text around them.  depth is the
\* depth of the comment the scan is in, in_string whether it is in a string.
RECURSIVE Surrounding(_, _, _)
Surrounding(source, depth, in_string) ==
    IF source = <<>> THEN <<>>
    ELSE IF in_string
    THEN IF Head(source) = "\\" /\ Len(source) >= 2
         THEN <<"#", "#">> \o Surrounding(Tail(Tail(source)), 0, TRUE)
         ELSE <<"#">> \o Surrounding(Tail(source), 0, Head(source) # "\"")
    ELSE IF depth > 0
    THEN <<"#">> \o Surrounding(Tail(source),
                               CASE Head(source) = "(" -> depth + 1
                                 [] Head(source) = ")" -> depth - 1
                                 [] OTHER -> depth,
                               FALSE)
    ELSE CASE Head(source) = "(" -> <<"#">> \o Surrounding(Tail(source), 1, FALSE)
           [] Head(source) = "\"" -> <<"#">> \o Surrounding(Tail(source), 0, TRUE)
           [] OTHER -> <<Head(source)>> \o Surrounding(Tail(source), 0, FALSE)

\* The characters that do not end a run of newlines
RunChars == {"\n", " ", "\t", "\r"}

\* i and j are newlines of the same run of the text
SameRun(text, i, j) ==
    /\ text[i] = "\n"
    /\ text[j] = "\n"
    /\ \A k \in i..j : text[k] \in RunChars

\* The first newline of each maximal run of newlines
RunStarts(text) ==
    {i \in DOMAIN text : text[i] = "\n" /\ \A j \in 1..(i - 1) : ~SameRun(text, j, i)}

\* The token the claim gives the run that starts at i
RunToken(text, i) ==
    IF \E j \in (i + 1)..Len(text) : SameRun(text, i, j) THEN Tok("ParagraphBreak")
    ELSE Tok("Newline")

\* The tokens of the runs, in the order of the text
RunTokens(text, starts) ==
    [k \in 1..Cardinality(starts) |->
        RunToken(text, CHOOSE i \in starts : Cardinality({j \in starts : j <= i}) = k)]

IsBreak(token) == token.t \in {"Newline", "ParagraphBreak"}

EOFLast(tokens) ==
    /\ tokens # <<>>
    /\ \A i \in DOMAIN tokens : tokens[i].t = "EOF" <=> i = Len(tokens)

\* C20: tokenize comes to its end on every text, also on one with a string or
\* a comment that is not closed, a closing parenthesis without an opening one,
\* or a character it does not know; its tokens then hold EOF exactly once, as
\* the last token, and no EOF is pushed before the end.
C20_EndsWithOneEOF ==
    /\ <>[](lexer.done /\ EOFLast(lexer.tokens))
    /\ [](lexer.done \/ \A i \in DOMAIN lexer.tokens : lexer.tokens[i].t # "EOF")

\* tokenize has returned on a text whose string or comment is not closed
C20_Witness ==
    /\ lexer.done
    /\ EOFLast(lexer.tokens)
    /\ \/ Cardinality({i \in DOMAIN lexer.source : lexer.source[i] = "\""}) = 1
       \/ /\ "(" \in Range(lexer.source)
          /\ ")" \notin Range(lexer.source)

\* ------------------------------------------------------ suggestion properties

\* What a returned suggestion promises of the word it is for
Suggestible(word, keyword) ==
    /\ Len(word) >= 3
    /\ Abs(Len(word) - Len(keyword)) <= 2
    /\ levenshtein_distance(word, keyword) \in 1..2
    /\ Len(word) = 3 => levenshtein_distance(word, keyword) = 1

\* C21: when find_similar_keyword returns keyword K for word W, W has at least
\* 3 characters, the lengths of W and K differ by at most 2 and the edit
\* distance of W and K is 1 or 2 (1 when W has 3 characters); a word that is
\* in the keyword list gets no suggestion.
C21_SuggestionThresholds ==
    suggestion.returned =>
        /\ suggestion.result # <<>> =>
              Suggestible(suggestion.word, suggestion.result[1])
        /\ suggestion.word \in Range(ENGLISH_KEYWORDS) => suggestion.result = <<>>

\* An identifier of at most two characters that no statement declares is printed
ShortUnavailable(name) ==
    /\ Len(name) <= 2
    /\ \E i \in DOMAIN analyzer.use_log :
          analyzer.use_log[i].name = name /\ ~analyzer.use_log[i].available

\* C22: an identifier of at most two characters, whatever its characters, is
\* never reported as a keyword typo (Unknown identifier, with a suggestion);
\* when it is not available at a use it is reported as an unknown variable.
C22_ShortNeverTypo ==
    pass = "done" =>
        \A name \in ShortNames :
            /\ \A i \in DOMAIN analyzer.errors : analyzer.errors[i] # TypoError(name)
            /\ ShortUnavailable(name) => ReportsUnknownVariable(name)

\* parse has failed at an identifier that find_similar_keyword has a
\* suggestion for
FailedAtMisspelling ==
    /\ parser.done
    /\ parser.error # None
    /\ current(parser).t = "Identifier"
    /\ find_similar_keyword(current(parser).s, ENGLISH_KEYWORDS) # None

\* C23: when parsing fails at an identifier whose text is within the
\* suggestion thresholds of a keyword of the fixed list, the error carries
\* the nearest keyword, the one find_similar_keyword gives for the text, as
\* its suggestion.
C23_ParseErrorSuggestsKeyword ==
    FailedAtMisspelling =>
        parser.suggestion = find_similar_keyword(current(parser).s, ENGLISH_KEYWORDS)

\* The error is one check_for_typos made
IsTypoError(error) == starts_with(error, MsgUnknownIdentifierOpen)

\* C24: in the error list analyze returns, every keyword-typo error comes
\* before every error of another kind.
C24_TyposFirst ==
    pass = "done" =>
        \A i, j \in DOMAIN analyzer.errors :
            (IsTypoError(analyzer.errors[i]) /\ ~IsTypoError(analyzer.errors[j])) => i < j

\* Two typo errors and an error of another kind were returned, the statement
\* of the other error being the first of the program
C24_Witness ==
    /\ pass = "done"
    /\ Cardinality(analyzer.typo_candidates) >= 2
    /\ Len(analyzer.errors) = 3
    /\ IsTypoError(analyzer.errors[2])
    /\ ~IsTypoError(analyzer.errors[3])
    /\ program.statements[1] \in {PrintStmt(Identifier(s_total)), FunctionCall(s_make, <<>>)}

\* Flag variable '<name>' is used before flags are parsed
FlagUseError(name) == MsgFlagVariableOpen \o name \o MsgUsedBeforeParsed

\* The statements before the parse point that refer to the flag, and the
\* errors that report a use of it before the flags are parsed
EarlyReferences(name) ==
    {i \in 1..ParsePoint(program.statements) :
        program.statements[i] \in StatementsReferring(name)}

FlagUseErrors(name) ==
    {i \in DOMAIN analyzer.errors : analyzer.errors[i] = FlagUseError(name)}

\* C25: every top-level statement before the flag parse point (the parse
\* flags marker, or the last flag declaration when there is no marker) that
\* refers to a flag variable, in an expression or as its target, gives a
\* 'used before flags are parsed' error, whatever kind of statement it is.
C25_FlagUseBeforeParse ==
    pass = "done" =>
        Cardinality(FlagUseErrors(s_verbose)) >= Cardinality(EarlyReferences(s_verbose))

\* C26: a second run of analyze on the same program leaves the same values
\* of the four feature flags (uses_io, uses_heap, uses_strings, uses_args) as
\* the first, whether it is run by the same analyzer or by a new one.
C26_FlagsRepeat == \A i \in DOMAIN runs : runs[i] = runs[1]

\* analyze has returned twice on a program that uses some features and not
\* others
C26_Witness ==
    /\ Len(runs) = 2
    /\ pass = "done"
    /\ runs[2].uses_io
    /\ ~runs[2].uses_heap

\* C27: on every set of source files, files that include themselves or each
\* other in a cycle among them, process_includes returns, and the statements
\* of no file are inlined more than once: no file is inlined by two calls,
\* and the program that is left holds the statement of each file at most once.
Inlinings(name) ==
    Cardinality({i \in DOMAIN includer.inlined : includer.inlined[i] = name})

Occurrences(statements, stmt) ==
    Cardinality({i \in DOMAIN statements : statements[i] = stmt})

InlinedOnce ==
    /\ \A name \in FileNames : Inlinings(name) <= 1
    /\ includer.done => \A name \in FileNames :
                            Occurrences(program.statements, OwnStatement(name)) <= 1

C27_IncludesTerminateOnce == <>[](includer.done) /\ [](pass = "include" => InlinedOnce)

\* a.en and b.en are both inlined, and a see statement of a.en met after
\* that is left where it was
C27_Witness ==
    /\ pass = "include"
    /\ includer.done
    /\ Inlinings(s_a_en) = 1
    /\ Inlinings(s_b_en) = 1
    /\ \E i \in DOMAIN program.statements :
           program.statements[i] \in {See(s_a_en), See(s_dot_slash \o s_a_en)}

\* The labels the generated text defines, in the order of their lines
DefinedLabels == SelectSeq(assembly, LAMBDA line : line.op = "label")

\* The names of the functions the program defines, in the order of their
\* definitions
DefinedFunctions ==
    SelectSeq(program.statements, LAMBDA stmt : stmt.k = "FunctionDef")

DistinctFunctionNames ==
    \A i, j \in DOMAIN DefinedFunctions :
        i # j => DefinedFunctions[i].name # DefinedFunctions[j].name

\* C28: in the text generated for a program whose functions have distinct
\* names, no label is defined by two lines: the labels of if-statements,
\* loops, bounds checks and file checks differ from one another in the main
\* body and in all functions, and so do the labels of the functions.
C28_LabelsDistinct ==
    (assembly # <<>> /\ DistinctFunctionNames) =>
        \A i, j \in DOMAIN DefinedLabels :
            i # j => DefinedLabels[i].a # DefinedLabels[j].a

\* The names the program declares as timers
TimerNames ==
    {program.statements[i].name :
        i \in {i \in DOMAIN program.statements : program.statements[i].k = "TimerDecl"}}

\* The bytes of the frame a named variable is stored in, as distances below
\* rbp: the word at its offset and, for a timer, the struct that
\* TimerDecl points to, TimerBytes long from rbp - (offset + 48)
Storage(name) ==
    LET offset == generator.variables[name]
    IN  IF name \in TimerNames
        THEN (offset - WordBytes + 1)..(offset + TimerBytes - WordBytes)
        ELSE (offset - WordBytes + 1)..offset

\* C29: in the frame of _start the storage of two distinct named variables
\* never overlaps, timers with their 56 bytes included.
C29_StorageDisjoint ==
    assembly # <<>> =>
        \A a, b \in DOMAIN generator.variables :
            a # b => Storage(a) \cap Storage(b) = {}

\* What a block does to the counter when break and continue do what their
\* names say: the counter after the block and how the block was left
RECURSIVE BlockEffect(_, _)
BlockEffect(statements, n) ==
    IF statements = <<>> THEN [n |-> n, left |-> "end"]
    ELSE LET stmt == Head(statements)
         IN  CASE stmt.k = "Break" -> [n |-> n, left |-> "break"]
               [] stmt.k = "Continue" -> [n |-> n, left |-> "continue"]
               [] stmt.k = "Increment" -> BlockEffect(Tail(statements), n + 1)
               [] stmt.k = "If" ->
                     LET inner == BlockEffect(stmt.then_block, n)
                     IN  IF inner.left = "end" THEN BlockEffect(Tail(statements), inner.n)
                         ELSE inner

\* The counter after a loop of at most `turns` iterations that goes on while
\* the counter is less than `limit`; a break ends the loop
RECURSIVE LoopEffect(_, _, _, _)
LoopEffect(body, n, turns, limit) ==
    IF turns = 0 \/ n >= limit THEN n
    ELSE LET effect == BlockEffect(body, n)
         IN  IF effect.left = "break" THEN effect.n
             ELSE LoopEffect(body, effect.n, turns - 1, limit)

\* The loop of the program comes to an end when break and continue do what
\* their names say: a while loop whose body cannot change the counter before
\* it continues does not
LoopEnds(loop) ==
    loop.k = "While" =>
        BlockEffect(loop.body, 0).left = "break" \/ BlockEffect(loop.body, 0).n > 0

\* The counter the loop must leave: a repeat or for loop makes two
\* iterations, a while loop goes on while the counter is less than 2
ExpectedCounter(loop) ==
    IF loop.k = "While" THEN LoopEffect(loop.body, 0, 2, 2)
    ELSE LoopEffect(loop.body, 0, 2, 2 + 2 * Len(loop.body))

\* The counter in the frame of _start
CounterValue == Read(cpu, cpu.regs["rbp"] - generator.variables[s_total])

\* C30: when the program has run, the counter is what break and continue
\* leave it at: a break ends the innermost loop, so no later statement of the
\* body and no further iteration runs, and a continue skips the rest of the
\* body for the current iteration.
C30_BreakAndContinue ==
    (cpu.status = "halted" /\ LoopEnds(program.statements[2])) =>
        CounterValue = ExpectedCounter(program.statements[2])
====
